---- MODULE Spec2Model ----
(***************************************************************************)
(* Model of codegen/model.py: the decoder classes (DecoderBase and its     *)
(* subclasses), their codegen operations, the stop-marker trimming that    *)
(* the Hugging Face decoders apply to decoded text, and the out-of-memory  *)
(* retry loop of CodeT5P.                                                  *)
(*                                                                         *)
(* Text is a sequence of one-character strings.  Temperatures are counted  *)
(* in tenths (8 is 0.8).  The model backends (transformers, vLLM and the   *)
(* remote APIs) are outside the file: an invocation is recorded in `calls` *)
(* and answered by any text of RawTexts or by an exception.                *)
(***************************************************************************)
EXTENDS Integers, Sequences, FiniteSets, TLC

VARIABLES
    EOS,      \* the module-level list EOS (model.py:46)
    self,     \* the decoder object: the fields set by the constructors
    pc,       \* position of the single caller thread
    args,     \* arguments of the codegen call in progress / last made
    loc,      \* local variables of the codegen call in progress
    calls,    \* backend invocations made by the current codegen call
    replies,  \* what each of those invocations ended with
    ret,      \* outcome of the last codegen call
    self0,    \* the decoder's fields as the call in progress found them
    t_output, \* trimming alone: the decoded text, packed
    t_eos,    \* trimming alone: the marker list
    t_result, \* trimming alone: what the trimming loop produced, packed
    decoders, \* make_model: the decoders constructed so far in this process
    outcome,  \* make_model: the last call, its argument and its outcome
    criteria, \* an EndOfFunctionCriteria object: start_length, eos, end_length
    tokenizer,\* the tokenizer it was given: how many tokens a marker encodes to
    input_ids,\* the token rows of the batch under generation
    halt      \* what the last call of the criteria returned

vars == <<EOS, self, self0, pc, args, loc, calls, replies, ret,
          t_output, t_eos, t_result, decoders, outcome,
          criteria, tokenizer, input_ids, halt>>

(***************************************************************************)
(* Bounds of the model.                                                    *)
(***************************************************************************)
MaxBatch == 2
MaxSamples == 2
MaxBudget == 2
MaxPieces == 2

(***************************************************************************)
(* Strings.                                                                *)
(***************************************************************************)
Min(a, b) == IF a <= b THEN a ELSE b

RECURSIVE Concat(_)
Concat(ss) == IF ss = <<>> THEN <<>> ELSE Head(ss) \o Concat(Tail(ss))

\* Positions (0-based) at which sub occurs in s.
Occurrences(sub, s) ==
    IF Len(sub) = 0
    THEN 0 .. Len(s)
    ELSE {i \in 0 .. (Len(s) - Len(sub)) :
             /\ s[i + 1] = sub[1]
             /\ SubSeq(s, i + 1, i + Len(sub)) = sub}

\* Python: sub in s
In(sub, s) == Occurrences(sub, s) # {}

\* Python: s.index(sub), for sub in s
Index(s, sub) ==
    LET occ == Occurrences(sub, s)
    IN  CHOOSE i \in occ : \A j \in occ : i <= j

\* Python: s[:n] for n >= 0
SliceTo(s, n) == SubSeq(s, 1, Min(n, Len(s)))

\* Python: s.replace(old, new), leftmost non-overlapping occurrences
RECURSIVE Replace(_, _, _)
Replace(s, old, new) ==
    IF Len(s) < Len(old) THEN s
    ELSE IF SubSeq(s, 1, Len(old)) = old
         THEN new \o Replace(SubSeq(s, Len(old) + 1, Len(s)), old, new)
         ELSE <<Head(s)>> \o Replace(Tail(s), old, new)

Filler(n) == [i \in 1 .. n |-> "x"]

\* A text is held as the number of "x" it starts with and what follows them.
Unpack(r) == Filler(r.lead) \o r.rest
Pack(s) ==
    LET other == {i \in 1 .. Len(s) : s[i] # "x"}
        lead == IF other = {} THEN Len(s)
                ELSE (CHOOSE i \in other : \A j \in other : i <= j) - 1
    IN  [lead |-> lead, rest |-> SubSeq(s, lead + 1, Len(s))]

Tab == <<"\t">>
FourSpaces == <<" ", " ", " ", " ">>

(***************************************************************************)
(* Stop markers.                                                           *)
(***************************************************************************)
M_endoftext == <<"<", "|", "e", "n", "d", "o", "f", "t", "e", "x", "t", "|", ">">>
M_endofmask == <<"<", "|", "e", "n", "d", "o", "f", "m", "a", "s", "k", "|", ">">>
M_s == <<"<", "/", "s", ">">>
\* A character TLA+ strings cannot hold is named by its code point.
Backquote == "U+0060"
M_fence == <<"\n", Backquote, Backquote, Backquote>>
M_fence_nl == <<"\n", Backquote, Backquote, Backquote, "\n">>
M_if == <<"\n", "i", "f", " ">>
M_EOT == <<"<", "|", "E", "O", "T", "|", ">">>
M_eom == <<"<", "e", "o", "m", ">">>
M_bar == <<"<", "|">>
M_file == <<"<", "|", "/", " ", "f", "i", "l", "e">>
M_cell == <<"<", "/", "c", "e", "l", "l", ">">>
M_text == <<"<", "/", "t", "e", "x", "t", ">">>
M_code == <<"<", "/", "c", "o", "d", "e", ">">>
M_CODE == <<"<", "/", "C", "O", "D", "E", ">">>
M_eos_ds == <<"<", "U+FF5C", "e", "n", "d", "U+2581", "o", "f", "U+2581",
              "s", "e", "n", "t", "e", "n", "c", "e", "U+FF5C", ">">>

\* EOS as the module is loaded
EOS0 == <<M_endoftext, M_endofmask, M_s>>

(***************************************************************************)
(* The trimming loop of the Hugging Face decoders ("removes eos tokens").  *)
(***************************************************************************)
MinIndexInit == 10000

RECURSIVE MinIndexLoop(_, _, _)
MinIndexLoop(output, eos, min_index) ==
    IF eos = <<>> THEN min_index
    ELSE MinIndexLoop(output, Tail(eos),
                      IF In(Head(eos), output)
                      THEN Min(min_index, Index(output, Head(eos)))
                      ELSE min_index)

\* A codegen that hands back the decoded text as it is.
TrimEos_Untrimmed(output, eos) == output

TrimEos(output, eos) == SliceTo(output, MinIndexLoop(output, eos, MinIndexInit))

(***************************************************************************)
(* The decoder object.  self.eos is a reference: `shared` says that it is  *)
(* the module-level list EOS itself (self.eos = EOS, and `+=` changes that *)
(* list in place); otherwise it is the decoder's own list `eos`            *)
(* (self.eos = self.eos + ... builds a new list).                          *)
(***************************************************************************)
DefaultMaxNewTokens == 512
DefaultMaxConversationalNewTokens == 1024

DecoderBase_init(cls, name, batch_size, temperature, max_new_tokens, conversational) ==
    [cls |-> cls,
     name |-> name,
     batch_size |-> batch_size,
     temperature |-> temperature,
     shared |-> TRUE,
     eos |-> <<>>,
     skip_special_tokens |-> FALSE,
     max_new_tokens |-> IF conversational
                        THEN DefaultMaxConversationalNewTokens
                        ELSE max_new_tokens,
     conversational |-> conversational]

\* The list self.eos refers to, given the module-level list E.
Eos(d, E) == IF d.shared THEN E ELSE d.eos

\* self.eos += extra: extends in place the list self.eos refers to.
\* The pair is <<module-level list, decoder>> after the statement.
EosExtendInPlace(d, E, extra) ==
    IF d.shared
    THEN <<E \o extra, d>>
    ELSE <<E, [d EXCEPT !.eos = d.eos \o extra]>>

\* self.eos = self.eos + extra: binds self.eos to a new list.
EosRebind(d, E, extra) ==
    <<E, [d EXCEPT !.shared = FALSE, !.eos = Eos(d, E) \o extra]>>

VLlmClasses == {"VLlmDecoder", "ChatML", "Alpaca"}
HFClasses == {"HFTorchDecoder", "IncoderDecoder", "Codegen2Decoder", "SantaCoder",
              "StarCoderInfill", "Speechless", "OpenCodeInterpreterDecoder"}
RemoteClasses == {"OpenAIChatDecoder", "MistralChatDecoder", "AnthropicMessageDecoder"}
Classes == VLlmClasses \cup HFClasses \cup {"CodeT5P"} \cup RemoteClasses

\* Names the constructors are called with (Speechless and CodeT5P accept no others).
NamesOf(cls) ==
    CASE cls = "OpenAIChatDecoder" -> {"gpt-4-1106-preview", "gpt-3.5-turbo"}
      [] cls = "Speechless" -> {"uukuguy/speechless-coding-7b-16k-tora",
                                "uukuguy/speechless-coder-ds-6.7b"}
      [] cls = "CodeT5P" -> {"Salesforce/codet5p-2b"}
      [] OTHER -> {cls}

HFTorchDecoder_init(cls, name, batch_size, temperature, max_new_tokens, conversational) ==
    [DecoderBase_init(cls, name, batch_size, temperature, max_new_tokens, conversational)
        EXCEPT !.skip_special_tokens = TRUE]

IncoderExtraEos == <<M_endofmask, M_file, M_cell, M_text, M_code, M_bar, M_CODE>>

SpeechlessExtraEos(name) ==
    IF name = "uukuguy/speechless-coding-7b-16k-tora" THEN <<M_s>> ELSE <<M_eos_ds>>

\* The subclasses of VLlmDecoder whose constructors set conversational and add
\* the fence to self.eos (Solar adds the fence only).
ForcedConversational ==
    {"ChatML", "CodeLlamaInstruct70B", "CodeLlamaInstructSmall", "Zyte", "OpenChat",
     "Alpaca", "WhiteRabbitNeo", "DeepSeekInstruct", "Magicoder", "Code",
     "XwinCoder", "CodeGemma"}

\* cls(name, batch_size=..., temperature=..., max_new_tokens=..., conversational=...)
\* run with the module-level list E: <<module-level list, new decoder>>.
Construct(cls, E, name, batch_size, temperature, max_new_tokens, conversational) ==
    LET base == DecoderBase_init(cls, name, batch_size, temperature,
                                 max_new_tokens, conversational)
        chat == DecoderBase_init(cls, name, batch_size, temperature,
                                 max_new_tokens, TRUE)
        hf == HFTorchDecoder_init(cls, name, batch_size, temperature,
                                  max_new_tokens, conversational)
    IN  CASE cls \in ForcedConversational -> EosExtendInPlace(chat, E, <<M_fence>>)
          [] cls = "Solar" -> EosExtendInPlace(base, E, <<M_fence>>)
          [] cls = "IncoderDecoder" -> EosRebind(hf, E, IncoderExtraEos)
          [] cls = "Codegen2Decoder" -> EosRebind(hf, E, <<M_eom>>)
          [] cls = "SantaCoder" -> EosRebind(hf, E, <<M_endofmask>>)
          [] cls = "Speechless" -> EosRebind(hf, E, SpeechlessExtraEos(name))
          [] cls = "OpenCodeInterpreterDecoder" ->
                 EosExtendInPlace(hf, E, <<M_EOT, M_fence_nl, M_if>>)
          [] cls \in {"HFTorchDecoder", "StarCoderInfill"} -> <<E, hf>>
          [] cls = "CodeT5P" -> <<E, [base EXCEPT !.skip_special_tokens = TRUE]>>
          [] OTHER -> <<E, base>>

(***************************************************************************)
(* Inputs.                                                                 *)
(***************************************************************************)
Temperatures == {-1, 0, 8}
BatchSizes == 1 .. MaxBatch
NumSamples == 0 .. MaxSamples
\* max_new_tokens given to the constructor: small budgets for the retry loop
Budgets(cls) ==
    IF cls = "CodeT5P" THEN (0 .. MaxBudget) \cup {DefaultMaxNewTokens}
    ELSE {DefaultMaxNewTokens}

Prompts == {<<"d">>, FourSpaces \o <<"d">>}

\* Texts a backend may produce.
RawTexts ==
    {<<>>,
     <<"x">>,
     <<"x">> \o M_s \o <<"y">>,
     Tab \o <<"x">> \o M_fence_nl \o <<"z">>,
     M_s}

(***************************************************************************)
(* Calls, outcomes and the backends.                                       *)
(***************************************************************************)
NoRet == [kind |-> "none", outputs |-> <<>>, exc |-> "none"]
Return(outputs) == [kind |-> "return", outputs |-> outputs, exc |-> "none"]
Raise(exc) == [kind |-> "raise", outputs |-> <<>>, exc |-> exc]

NoArgs == [prompt |-> <<>>, do_sample |-> FALSE, num_samples |-> 0]
NoLoc == [batch_size |-> 0, max_new_tokens |-> 0, outputs |-> <<>>,
          kwargs_temperature |-> <<>>, input |-> <<>>]

AssertionError == "AssertionError"

\* Exceptions a backend invocation may end with.
OOM == "RuntimeError: CUDA out of memory"
BackendErrors == {OOM, "RuntimeError: other", "ValueError"}
\* except RuntimeError as e
IsRuntimeError(e) == e \in {OOM, "RuntimeError: other"}
\* A handler that takes every RuntimeError for out-of-memory.
IsOOM_AnyRuntimeError(e) == TRUE

\* "CUDA out of memory" in str(e)
IsOOM(e) == e = OOM

\* One invocation of a backend.  An absent keyword argument is <<>>, a given one <<v>>.
Request(fn, input, n, do_sample, temperature, top_p, max_tokens, stop) ==
    [fn |-> fn, input |-> input, n |-> n, do_sample |-> do_sample,
     temperature |-> temperature, top_p |-> top_p, max_tokens |-> max_tokens,
     stop |-> stop]

\* What an invocation ended with: an exception, or texts.
ErrorReply(e) == [exc |-> e, texts |-> <<>>]
TextReply(texts) == [exc |-> "none", texts |-> texts]

Range(f) == {f[i] : i \in DOMAIN f}

\* The n texts a backend answers with when it was told to stop at `stop`.
Answers(n, stop) ==
    [1 .. n -> {t \in RawTexts : \A m \in Range(stop) : ~In(m, t)}]

\* The prompt inside a class's template text.
Template(cls, prompt) == <<"[" \o cls \o "]">> \o prompt \o <<"[/" \o cls \o "]">>

Whitespace == {" ", "\t", "\n"}
RECURSIVE LStrip(_)
LStrip(s) == IF s # <<>> /\ Head(s) \in Whitespace THEN LStrip(Tail(s)) ELSE s
RECURSIVE RStrip(_)
RStrip(s) ==
    IF s # <<>> /\ s[Len(s)] \in Whitespace THEN RStrip(SubSeq(s, 1, Len(s) - 1)) ELSE s
\* Python: s.strip()
Strip(s) == RStrip(LStrip(s))

\* A codegen that always asks for the configured batch.
EffectiveBatch_Configured(batch_size, num_samples) == batch_size

\* min(self.batch_size, num_samples)
EffectiveBatch(batch_size, num_samples) == Min(batch_size, num_samples)

\* codegen is entered with these arguments.
Begin(prompt, do_sample, num_samples) ==
    /\ pc = "idle"
    /\ args' = [prompt |-> prompt, do_sample |-> do_sample, num_samples |-> num_samples]
    /\ self0' = self

\* The call returns or raises: the caller has the outcome.
Finish(r) ==
    /\ ret' = r
    /\ pc' = "done"

\* The backend is invoked with req and ends with reply.
Invoke(req, reply) ==
    /\ calls' = Append(calls, req)
    /\ replies' = Append(replies, reply)

\* A failed assert ends the call before anything else is done.
Reject ==
    /\ Finish(Raise(AssertionError))
    /\ UNCHANGED <<calls, replies, loc>>

MakeVars == <<decoders, outcome>>
StopVars == <<criteria, tokenizer, input_ids, halt>>

Frame == UNCHANGED <<EOS, t_output, t_eos, t_result, MakeVars, StopVars>>

\* No make_model call has been made, and no stopping criteria is in use.
NoMade == [name |-> <<>>, kind |-> "none", exc |-> "none", decoder |-> <<>>]
NoMakeModel == decoders = <<>> /\ outcome = NoMade
NoCriteria ==
    /\ criteria = [start_length |-> 0, eos |-> <<>>, end_length |-> <<>>]
    /\ tokenizer = <<>>
    /\ input_ids = <<>>
    /\ halt = "none"

(***************************************************************************)
(* vLLM decoders.                                                          *)
(***************************************************************************)
\* VLlmDecoder.codegen(self, input, do_sample, num_samples)
VLlmDecoder_codegen_body(input, do_sample, num_samples) ==
    IF do_sample /\ ~(self.temperature > 0)
    THEN Reject
    ELSE LET batch_size == EffectiveBatch(self.batch_size, num_samples)
             req == Request("llm.generate", input, batch_size, <<>>,
                            <<self.temperature>>,
                            IF do_sample THEN <<95>> ELSE <<100>>,
                            self.max_new_tokens, Eos(self, EOS))
         IN  /\ \/ \E e \in BackendErrors :
                      /\ Invoke(req, ErrorReply(e))
                      /\ Finish(Raise(e))
                \/ \E vllm_outputs \in Answers(batch_size, req.stop) :
                      /\ Invoke(req, TextReply(vllm_outputs))
                      /\ Finish(Return([i \in 1 .. batch_size |->
                                           Replace(vllm_outputs[i], Tab, FourSpaces)]))
             /\ UNCHANGED loc

VLlmDecoder_codegen ==
    /\ self.cls = "VLlmDecoder"
    /\ \E prompt \in Prompts, do_sample \in BOOLEAN, num_samples \in NumSamples :
          /\ Begin(prompt, do_sample, num_samples)
          /\ VLlmDecoder_codegen_body(prompt, do_sample, num_samples)
    /\ UNCHANGED self
    /\ Frame

\* ChatML, CodeLlamaInstruct70B, CodeLlamaInstructSmall, Zyte, OpenChat, Solar:
\* the temperature assertion, the template, then VLlmDecoder.codegen.
ChatML_codegen ==
    /\ self.cls = "ChatML"
    /\ \E prompt \in Prompts, do_sample \in BOOLEAN, num_samples \in NumSamples :
          /\ Begin(prompt, do_sample, num_samples)
          /\ IF do_sample /\ ~(self.temperature > 0)
             THEN Reject
             ELSE VLlmDecoder_codegen_body(Template("ChatML", prompt),
                                           do_sample, num_samples)
    /\ UNCHANGED self
    /\ Frame

\* Alpaca, WhiteRabbitNeo, DeepSeekInstruct, Magicoder, Code, XwinCoder, CodeGemma:
\* the template, then VLlmDecoder.codegen.
Alpaca_codegen ==
    /\ self.cls = "Alpaca"
    /\ \E prompt \in Prompts, do_sample \in BOOLEAN, num_samples \in NumSamples :
          /\ Begin(prompt, do_sample, num_samples)
          /\ VLlmDecoder_codegen_body(Template("Alpaca", prompt), do_sample, num_samples)
    /\ UNCHANGED self
    /\ Frame

(***************************************************************************)
(* Hugging Face decoders.                                                  *)
(***************************************************************************)
\* Assertions that ask of a greedy call temperature 0 and one sample.
TemperatureZeroAsserts_Greedy(do_sample, num_samples) ==
    ~do_sample => (self.temperature = 0 /\ num_samples = 1)

\* Assertions that leave the number of samples unchecked.
TemperatureZeroAsserts_NoCount(do_sample, num_samples) ==
    self.temperature = 0 => ~do_sample

\* if self.temperature == 0: assert not do_sample; assert num_samples == 1
TemperatureZeroAsserts(do_sample, num_samples) ==
    self.temperature = 0 => (~do_sample /\ num_samples = 1)

\* "removes eos tokens": the loop over gen_strs
RemoveEos(gen_strs, eos) ==
    [i \in 1 .. Len(gen_strs) |-> TrimEos(gen_strs[i], eos)]

\* self.model.generate(...), batch_decode of the generated part, and the trimming.
GenerateDecodeTrim(req) ==
    /\ \/ \E e \in BackendErrors :
             /\ Invoke(req, ErrorReply(e))
             /\ Finish(Raise(e))
       \/ \E gen_strs \in Answers(req.n, <<>>) :
             /\ Invoke(req, TextReply(gen_strs))
             /\ Finish(Return(RemoveEos(gen_strs, Eos(self, EOS))))
    /\ UNCHANGED loc

\* HFTorchDecoder.codegen(self, prompt, do_sample, num_samples)
HFTorchDecoder_codegen_body(prompt, do_sample, num_samples) ==
    IF ~TemperatureZeroAsserts(do_sample, num_samples)
    THEN Reject
    ELSE GenerateDecodeTrim(
             Request("model.generate", prompt,
                     EffectiveBatch(self.batch_size, num_samples), <<do_sample>>,
                     IF do_sample THEN <<self.temperature>> ELSE <<>>,
                     IF do_sample THEN <<95>> ELSE <<>>,
                     self.max_new_tokens, <<>>))

\* HFTorchDecoder.codegen, and Speechless.codegen, which repeats it.
HFTorchDecoder_codegen ==
    /\ self.cls \in {"HFTorchDecoder", "Speechless"}
    /\ \E prompt \in Prompts, do_sample \in BOOLEAN, num_samples \in NumSamples :
          /\ Begin(prompt, do_sample, num_samples)
          /\ HFTorchDecoder_codegen_body(prompt, do_sample, num_samples)
    /\ UNCHANGED self
    /\ Frame

OpenCodeInterpreterDecoder_codegen ==
    /\ self.cls = "OpenCodeInterpreterDecoder"
    /\ \E prompt \in Prompts, do_sample \in BOOLEAN, num_samples \in NumSamples :
          /\ Begin(prompt, do_sample, num_samples)
          /\ HFTorchDecoder_codegen_body(Template("OpenCodeInterpreter", prompt),
                                         do_sample, num_samples)
    /\ UNCHANGED self
    /\ Frame

\* No assertion; temperature and top_p are always handed over.
IncoderDecoder_codegen ==
    /\ self.cls = "IncoderDecoder"
    /\ \E prompt \in Prompts, do_sample \in BOOLEAN, num_samples \in NumSamples :
          /\ Begin(prompt, do_sample, num_samples)
          /\ GenerateDecodeTrim(
                 Request("model.generate", Template("Incoder", prompt),
                         EffectiveBatch(self.batch_size, num_samples), <<do_sample>>,
                         <<self.temperature>>, <<95>>, self.max_new_tokens, <<>>))
    /\ UNCHANGED self
    /\ Frame

\* Codegen2Decoder.codegen and SantaCoder.codegen
Codegen2Decoder_codegen ==
    /\ self.cls \in {"Codegen2Decoder", "SantaCoder"}
    /\ \E prompt \in Prompts, do_sample \in BOOLEAN, num_samples \in NumSamples :
          /\ Begin(prompt, do_sample, num_samples)
          /\ IF ~TemperatureZeroAsserts(do_sample, num_samples)
             THEN Reject
             ELSE GenerateDecodeTrim(
                      Request("model.generate", Template(self.cls, prompt),
                              EffectiveBatch(self.batch_size, num_samples), <<do_sample>>,
                              <<self.temperature>>, <<95>>, self.max_new_tokens, <<>>))
    /\ UNCHANGED self
    /\ Frame

\* kwargs (top_p, temperature) is built but not handed to generate.
StarCoderInfill_codegen ==
    /\ self.cls = "StarCoderInfill"
    /\ \E prompt \in Prompts, do_sample \in BOOLEAN, num_samples \in NumSamples :
          /\ Begin(prompt, do_sample, num_samples)
          /\ IF ~TemperatureZeroAsserts(do_sample, num_samples)
             THEN Reject
             ELSE GenerateDecodeTrim(
                      Request("model.generate", Template("StarCoderInfill", prompt),
                              EffectiveBatch(self.batch_size, num_samples), <<do_sample>>,
                              <<>>, <<>>, self.max_new_tokens, <<>>))
    /\ UNCHANGED self
    /\ Frame

(***************************************************************************)
(* CodeT5P: generation inside the out-of-memory retry loop.                *)
(***************************************************************************)
\* A reduction that rounds up instead of down.
Shrink_RoundUp(max_new_tokens) == (max_new_tokens * 8 + 9) \div 10

\* int(max_new_tokens * 0.8)
Shrink(max_new_tokens) == (max_new_tokens * 8) \div 10

\* codegen up to the while loop
CodeT5P_codegen ==
    /\ self.cls = "CodeT5P"
    /\ \E prompt \in Prompts, do_sample \in BOOLEAN, num_samples \in NumSamples :
          /\ Begin(prompt, do_sample, num_samples)
          /\ IF ~TemperatureZeroAsserts(do_sample, num_samples)
             THEN Reject
             ELSE /\ pc' = "CodeT5P.while"
                  /\ loc' = [NoLoc EXCEPT !.input = Replace(prompt, FourSpaces, Tab),
                                          !.max_new_tokens = self.max_new_tokens]
                  /\ UNCHANGED <<calls, replies, ret>>
    /\ UNCHANGED self
    /\ Frame

\* one pass of `while max_new_tokens > 0`, and what follows the loop
CodeT5P_while ==
    /\ pc = "CodeT5P.while"
    /\ IF loc.max_new_tokens > 0
       THEN LET req == Request("model.generate", loc.input,
                               EffectiveBatch(self.batch_size, args.num_samples),
                               <<args.do_sample>>, <<self.temperature>>, <<95>>,
                               loc.max_new_tokens, <<>>)
            IN  \/ \E e \in BackendErrors :
                      /\ Invoke(req, ErrorReply(e))
                      /\ IF IsRuntimeError(e) /\ IsOOM(e)
                         THEN \* continue
                              /\ loc' = [loc EXCEPT !.max_new_tokens =
                                                        Shrink(loc.max_new_tokens)]
                              /\ UNCHANGED <<pc, ret>>
                         ELSE \* raise e, or an exception the except clause lets through
                              /\ Finish(Raise(e))
                              /\ UNCHANGED loc
                \/ \E gen_strs \in Answers(req.n, <<>>) :
                      \* break
                      /\ Invoke(req, TextReply(gen_strs))
                      /\ Finish(Return(
                             [i \in 1 .. Len(gen_strs) |->
                                 Replace(TrimEos(gen_strs[i], Eos(self, EOS)),
                                         Tab, FourSpaces)]))
                      /\ UNCHANGED loc
       ELSE \* raw_outputs was never assigned
            /\ Finish(Raise("UnboundLocalError"))
            /\ UNCHANGED <<calls, replies, loc>>
    /\ UNCHANGED <<self, self0, args>>
    /\ Frame

(***************************************************************************)
(* Remote decoders.                                                        *)
(***************************************************************************)
\* Response contents in JSON: {"code": c} is written { c }, an object without
\* the field {}, and one whose "code" is the number 0, not a string, {0}.
JsonTexts == {<<"{", "}">>, <<"{", "x", "}">>, <<"{", "0", "}">>}

\* json.loads(content) and json_data.get("code"): <<>> when the content is no
\* JSON object or has no "code", <<c>> when it has.
JsonCode(content) ==
    IF Len(content) >= 3 /\ content[1] = "{" /\ content[Len(content)] = "}"
    THEN <<SubSeq(content, 2, Len(content) - 1)>>
    ELSE <<>>

\* A loop that gives an empty string for a content it can take no code from.
OpenAIOutput_Drop(prompt, fmt, content) ==
    IF fmt # "json_object" THEN content
    ELSE IF JsonCode(content) # <<>> THEN prompt \o <<"\n">> \o JsonCode(content)[1]
    ELSE <<>>

\* the loop over ret.choices: a "code" that is no string makes the
\* concatenation raise TypeError, which `except Exception` takes.
OpenAIOutput(prompt, fmt, content) ==
    IF /\ fmt = "json_object"
       /\ JsonCode(content) # <<>>
       /\ JsonCode(content)[1] # <<"0">>
    THEN prompt \o <<"\n">> \o JsonCode(content)[1]
    ELSE content

OpenAIChatDecoder_codegen ==
    /\ self.cls = "OpenAIChatDecoder"
    /\ \E prompt \in Prompts, do_sample \in BOOLEAN, num_samples \in NumSamples :
          /\ Begin(prompt, do_sample, num_samples)
          /\ IF do_sample /\ ~(self.temperature > 0)
             THEN Reject
             ELSE LET batch_size == EffectiveBatch(self.batch_size, num_samples)
                      fmt == IF self.name = "gpt-4-1106-preview"
                             THEN "json_object" ELSE "text"
                      req == Request("openai_request.make_auto_request",
                                     <<fmt>> \o Strip(prompt), batch_size, <<>>,
                                     <<self.temperature>>, <<>>,
                                     self.max_new_tokens, <<>>)
                  IN  /\ \/ \E e \in BackendErrors :
                               /\ Invoke(req, ErrorReply(e))
                               /\ Finish(Raise(e))
                         \/ \E choices \in [1 .. batch_size -> RawTexts \cup JsonTexts] :
                               /\ Invoke(req, TextReply(choices))
                               /\ Finish(Return([i \in 1 .. batch_size |->
                                                    OpenAIOutput(prompt, fmt, choices[i])]))
                      /\ UNCHANGED loc
    /\ UNCHANGED self
    /\ Frame

\* codegen up to the for loop
MistralChatDecoder_codegen ==
    /\ self.cls = "MistralChatDecoder"
    /\ \E prompt \in Prompts, do_sample \in BOOLEAN, num_samples \in NumSamples :
          /\ Begin(prompt, do_sample, num_samples)
          /\ IF do_sample
             THEN IF ~(self.temperature > 0)
                  THEN /\ Reject
                       /\ UNCHANGED self
                  ELSE /\ pc' = "Mistral.for"
                       /\ loc' = [NoLoc EXCEPT
                                     !.kwargs_temperature = <<self.temperature>>,
                                     !.batch_size = EffectiveBatch(self.batch_size, num_samples),
                                     !.input = Strip(prompt)]
                       /\ UNCHANGED <<self, calls, replies, ret>>
             ELSE /\ self' = [self EXCEPT !.temperature = 0]
                  /\ pc' = "Mistral.for"
                  /\ loc' = [NoLoc EXCEPT
                                !.batch_size = EffectiveBatch(self.batch_size, num_samples),
                                !.input = Strip(prompt)]
                  /\ UNCHANGED <<calls, replies, ret>>
    /\ Frame

\* A loop that puts each response before the ones it has.
MistralChatDecoder_for_Prepend ==
    /\ pc = "Mistral.for"
    /\ IF Len(loc.outputs) < loc.batch_size
       THEN LET req == Request("client.chat", loc.input, 1, <<>>,
                               loc.kwargs_temperature,
                               IF args.do_sample THEN <<95>> ELSE <<>>,
                               self.max_new_tokens, <<>>)
            IN  \/ \E e \in BackendErrors :
                      /\ Invoke(req, ErrorReply(e))
                      /\ Finish(Raise(e))
                      /\ UNCHANGED loc
                \/ \E content \in RawTexts :
                      /\ Invoke(req, TextReply(<<content>>))
                      /\ loc' = [loc EXCEPT !.outputs = <<content>> \o loc.outputs]
                      /\ UNCHANGED <<pc, ret>>
       ELSE /\ Finish(Return(loc.outputs))
            /\ UNCHANGED <<calls, replies, loc>>
    /\ UNCHANGED <<self, self0, args>>
    /\ Frame

\* one pass of `for _ in range(batch_size)`, and the return after it
MistralChatDecoder_for ==
    /\ pc = "Mistral.for"
    /\ IF Len(loc.outputs) < loc.batch_size
       THEN LET req == Request("client.chat", loc.input, 1, <<>>,
                               loc.kwargs_temperature,
                               IF args.do_sample THEN <<95>> ELSE <<>>,
                               self.max_new_tokens, <<>>)
            IN  \/ \E e \in BackendErrors :
                      /\ Invoke(req, ErrorReply(e))
                      /\ Finish(Raise(e))
                      /\ UNCHANGED loc
                \/ \E content \in RawTexts :
                      /\ Invoke(req, TextReply(<<content>>))
                      /\ loc' = [loc EXCEPT !.outputs = Append(loc.outputs, content)]
                      /\ UNCHANGED <<pc, ret>>
       ELSE /\ Finish(Return(loc.outputs))
            /\ UNCHANGED <<calls, replies, loc>>
    /\ UNCHANGED <<self, self0, args>>
    /\ Frame

AnthropicStopSequences == <<M_fence_nl, M_if>>

\* A codegen without the assertion on the batch size.
AnthropicMessageDecoder_codegen_AnyBatch ==
    /\ self.cls = "AnthropicMessageDecoder"
    /\ \E prompt \in Prompts, do_sample \in BOOLEAN, num_samples \in NumSamples :
          /\ Begin(prompt, do_sample, num_samples)
          /\ LET batch_size == EffectiveBatch(self.batch_size, num_samples)
             IN  IF do_sample /\ ~(self.temperature > 0)
                 THEN Reject
                 ELSE /\ pc' = "Anthropic.for"
                      /\ loc' = [NoLoc EXCEPT !.batch_size = batch_size,
                                              !.input = Strip(prompt)]
                      /\ UNCHANGED <<calls, replies, ret>>
    /\ UNCHANGED self
    /\ Frame

\* codegen up to the for loop
AnthropicMessageDecoder_codegen ==
    /\ self.cls = "AnthropicMessageDecoder"
    /\ \E prompt \in Prompts, do_sample \in BOOLEAN, num_samples \in NumSamples :
          /\ Begin(prompt, do_sample, num_samples)
          /\ LET batch_size == EffectiveBatch(self.batch_size, num_samples)
             IN  IF \/ do_sample /\ ~(self.temperature > 0)
                    \/ ~do_sample /\ batch_size # 1
                 THEN Reject
                 ELSE /\ pc' = "Anthropic.for"
                      /\ loc' = [NoLoc EXCEPT !.batch_size = batch_size,
                                              !.input = Strip(prompt)]
                      /\ UNCHANGED <<calls, replies, ret>>
    /\ UNCHANGED self
    /\ Frame

\* one pass of `for _ in range(batch_size)`, and the return after it
AnthropicMessageDecoder_for ==
    /\ pc = "Anthropic.for"
    /\ IF Len(loc.outputs) < loc.batch_size
       THEN LET req == Request("anthropic_request.make_auto_request", loc.input, 1,
                               <<>>, <<self.temperature>>, <<>>,
                               self.max_new_tokens, AnthropicStopSequences)
            IN  \/ \E e \in BackendErrors :
                      /\ Invoke(req, ErrorReply(e))
                      /\ Finish(Raise(e))
                      /\ UNCHANGED loc
                \/ \E text \in Answers(1, req.stop) :
                      /\ Invoke(req, TextReply(text))
                      /\ loc' = [loc EXCEPT !.outputs = Append(loc.outputs, text[1])]
                      /\ UNCHANGED <<pc, ret>>
       ELSE /\ Finish(Return(loc.outputs))
            /\ UNCHANGED <<calls, replies, loc>>
    /\ UNCHANGED <<self, self0, args>>
    /\ Frame

(***************************************************************************)
(* The decoder of a fresh process, and its calls.                          *)
(***************************************************************************)
\* The caller has taken the outcome of codegen and is ready to call again.
Caller_continue ==
    /\ pc = "done"
    /\ pc' = "idle"
    /\ args' = NoArgs
    /\ loc' = NoLoc
    /\ calls' = <<>>
    /\ replies' = <<>>
    /\ ret' = NoRet
    /\ self0' = self
    /\ UNCHANGED self
    /\ Frame

Init ==
    /\ \E cls \in Classes :
       \E name \in NamesOf(cls), batch_size \in BatchSizes,
          temperature \in Temperatures, max_new_tokens \in Budgets(cls),
          conversational \in BOOLEAN :
          LET made == Construct(cls, EOS0, name, batch_size, temperature,
                                max_new_tokens, conversational)
          IN  /\ EOS = made[1]
              /\ self = made[2]
              /\ self0 = made[2]
    /\ pc = "idle"
    /\ args = NoArgs
    /\ loc = NoLoc
    /\ calls = <<>>
    /\ replies = <<>>
    /\ ret = NoRet
    /\ t_output = Pack(<<>>)
    /\ t_eos = <<>>
    /\ t_result = Pack(<<>>)
    /\ NoMakeModel
    /\ NoCriteria

Next ==
    \/ VLlmDecoder_codegen
    \/ ChatML_codegen
    \/ Alpaca_codegen
    \/ HFTorchDecoder_codegen
    \/ OpenCodeInterpreterDecoder_codegen
    \/ IncoderDecoder_codegen
    \/ Codegen2Decoder_codegen
    \/ StarCoderInfill_codegen
    \/ CodeT5P_codegen
    \/ CodeT5P_while
    \/ OpenAIChatDecoder_codegen
    \/ MistralChatDecoder_codegen
    \/ MistralChatDecoder_for
    \/ AnthropicMessageDecoder_codegen
    \/ AnthropicMessageDecoder_for
    \/ Caller_continue

Spec == Init /\ [][Next]_vars

\* The caller's thread is not suspended inside codegen: a loop that can take
\* its next pass takes it.
FairSpec ==
    Spec /\ WF_vars(CodeT5P_while) /\ WF_vars(MistralChatDecoder_for)
         /\ WF_vars(AnthropicMessageDecoder_for)

(***************************************************************************)
(* The trimming loop on its own: one decoded text, the marker list of a    *)
(* Hugging Face decoder, and texts on both sides of the initial min_index. *)
(***************************************************************************)
TrimPieces == {<<"x">>, M_s, M_endofmask, M_if}

\* Concatenations of at most n pieces.
RECURSIVE PieceTexts(_)
PieceTexts(n) ==
    IF n = 0 THEN {<<>>}
    ELSE LET shorter == PieceTexts(n - 1)
         IN  shorter \cup {t \o p : t \in shorter, p \in TrimPieces}

TrimTexts ==
    LET tails == PieceTexts(MaxPieces)
    IN  tails \cup {Filler(MinIndexInit - 1) \o t : t \in tails}

InitTrim ==
    /\ \E cls \in HFClasses \cup {"CodeT5P"} :
       \E name \in NamesOf(cls) :
          LET made == Construct(cls, EOS0, name, 1, 8, DefaultMaxNewTokens, FALSE)
          IN  /\ EOS = made[1]
              /\ self = made[2]
              /\ self0 = made[2]
              /\ t_eos = Eos(made[2], made[1])
    /\ t_output \in {Pack(t) : t \in TrimTexts}
    /\ t_result = Pack(<<>>)
    /\ pc = "trim"
    /\ args = NoArgs
    /\ loc = NoLoc
    /\ calls = <<>>
    /\ replies = <<>>
    /\ ret = NoRet
    /\ NoMakeModel
    /\ NoCriteria

\* for eos in self.eos: ...; outputs.append(output[:min_index])
Trim_output ==
    /\ pc = "trim"
    /\ t_result' = Pack(TrimEos(Unpack(t_output), t_eos))
    /\ pc' = "trimmed"
    /\ UNCHANGED <<EOS, self, self0, args, loc, calls, replies, ret, t_output, t_eos>>
    /\ UNCHANGED <<MakeVars, StopVars>>

NextTrim == Trim_output

SpecTrim == InitTrim /\ [][NextTrim]_vars

(***************************************************************************)
(* make_model: the selector from an identifier to a decoder.  Identifiers  *)
(* and the names it computes are texts; the names it passes as literals    *)
(* are kept as strings.                                                    *)
(***************************************************************************)
S_gpt35 == <<"g", "p", "t", "-", "3", ".", "5", "-">>
S_gpt4 == <<"g", "p", "t", "-", "4", "-">>
S_claude == <<"c", "l", "a", "u", "d", "e">>
S_starcoder == <<"s", "t", "a", "r", "c", "o", "d", "e", "r">>
S_starcoder2_ == <<"s", "t", "a", "r", "c", "o", "d", "e", "r", "2", "-">>
S_code_llama_ == <<"c", "o", "d", "e", "-", "l", "l", "a", "m", "a", "-">>
S_code_llama_multi == <<"c", "o", "d", "e", "-", "l", "l", "a", "m", "a",
    "-", "m", "u", "l", "t", "i">>
S_instruct == <<"i", "n", "s", "t", "r", "u", "c", "t">>
S_b == <<"b">>
S_70b == <<"7", "0", "b">>
S_deepseek_coder == <<"d", "e", "e", "p", "s", "e", "e", "k", "-", "c", "o",
    "d", "e", "r">>
S_deepseek_coder_ == <<"d", "e", "e", "p", "s", "e", "e", "k", "-", "c", "o",
    "d", "e", "r", "-">>
S_codegemma == <<"c", "o", "d", "e", "g", "e", "m", "m", "a">>
S_codegemma_ == <<"c", "o", "d", "e", "g", "e", "m", "m", "a", "-">>
S_dash == <<"-">>
S_v == <<"v">>
S_dot == <<".">>
N_starcoder2 == <<"b", "i", "g", "c", "o", "d", "e", "/", "s", "t", "a", "r",
    "c", "o", "d", "e", "r", "2", "-">>
N_bigcode == <<"b", "i", "g", "c", "o", "d", "e", "/">>
N_CodeLlama70BInstruct == <<"c", "o", "d", "e", "l", "l", "a", "m", "a", "/",
    "C", "o", "d", "e", "L", "l", "a", "m", "a", "-", "7", "0", "B", "-",
    "I", "n", "s", "t", "r", "u", "c", "t", "-", "h", "f">>
N_CodeLlama == <<"c", "o", "d", "e", "l", "l", "a", "m", "a", "/", "C", "o",
    "d", "e", "L", "l", "a", "m", "a", "-">>
N_Instruct_hf == <<"-", "I", "n", "s", "t", "r", "u", "c", "t", "-", "h",
    "f">>
N_hf == <<"-", "h", "f">>
N_Python_hf == <<"-", "P", "y", "t", "h", "o", "n", "-", "h", "f">>
N_deepseek == <<"d", "e", "e", "p", "s", "e", "e", "k", "-", "a", "i", "/",
    "d", "e", "e", "p", "s", "e", "e", "k", "-", "c", "o", "d", "e", "r",
    "-">>
N_b_instruct == <<"b", "-", "i", "n", "s", "t", "r", "u", "c", "t">>
N_b_base == <<"b", "-", "b", "a", "s", "e">>
N_CodeGemma == <<"T", "e", "c", "h", "x", "G", "e", "n", "u", "s", "/", "C",
    "o", "d", "e", "G", "e", "m", "m", "a", "-">>

\* Python: s.startswith(p), s.endswith(p)
StartsWith(s, p) == Len(p) <= Len(s) /\ SubSeq(s, 1, Len(p)) = p
EndsWith(s, p) == Len(p) <= Len(s) /\ SubSeq(s, Len(s) - Len(p) + 1, Len(s)) = p

\* Python: s.split(sep) for a one-character sep
RECURSIVE Split(_, _)
Split(s, sep) ==
    IF ~In(sep, s) THEN <<s>>
    ELSE LET i == Index(s, sep)
         IN  <<SubSeq(s, 1, i)>> \o Split(SubSeq(s, i + 2, Len(s)), sep)

Digits == <<"0", "1", "2", "3", "4", "5", "6", "7", "8", "9">>
IsDigit(c) == \E d \in 1 .. 10 : Digits[d] = c
DigitValue(c) == (CHOOSE d \in 1 .. 10 : Digits[d] = c) - 1

\* The longest run of digits at the head of s: what \d+ and \d* take.
RECURSIVE DigitRun(_)
DigitRun(s) ==
    IF s # <<>> /\ IsDigit(Head(s)) THEN <<Head(s)>> \o DigitRun(Tail(s)) ELSE <<>>

\* Python: int(digits)
RECURSIVE ParseInt(_)
ParseInt(digits) ==
    IF digits = <<>> THEN 0
    ELSE 10 * ParseInt(SubSeq(digits, 1, Len(digits) - 1))
         + DigitValue(digits[Len(digits)])

\* Python: str(n) for an int n >= 0
RECURSIVE FormatInt(_)
FormatInt(n) ==
    IF n < 10 THEN <<Digits[n + 1]>>
    ELSE FormatInt(n \div 10) \o <<Digits[(n % 10) + 1]>>

\* Without the zeros at its end.
RECURSIVE StripZeros(_)
StripZeros(digits) ==
    IF digits # <<>> /\ digits[Len(digits)] = "0"
    THEN StripZeros(SubSeq(digits, 1, Len(digits) - 1))
    ELSE digits

\* Python: float(text) for text matched by \d+\.?\d* : the whole part and the
\* digits of the fraction that count.
ParseFloat(text) ==
    LET whole == DigitRun(text)
        rest == SubSeq(text, Len(whole) + 1, Len(text))
        frac == IF rest # <<>> /\ Head(rest) = "." THEN Tail(rest) ELSE <<>>
    IN  [whole |-> ParseInt(whole), frac |-> StripZeros(frac)]

\* nb.is_integer()
IsInteger(nb) == nb.frac = <<>>

\* A format that drops the fraction.
FormatNumber_Whole(nb) == FormatInt(nb.whole)

\* f"{nb}": of the int when nb.is_integer(), of the float otherwise
FormatNumber(nb) ==
    IF IsInteger(nb) THEN FormatInt(nb.whole)
    ELSE FormatInt(nb.whole) \o S_dot \o nb.frac

\* The branches `name == "..."` of make_model, each with the line it starts on:
\* the class it constructs, the name it passes, and the keyword arguments
\* conversational and max_new_tokens where it passes them.
KnownModels ==
    <<[line |-> 1054, cls |-> "HFTorchDecoder", name |-> "Salesforce/codegen-2B-mono",
      conversational |-> <<>>, max_new_tokens |-> <<>>,
      id |-> <<"c", "o", "d", "e", "g", "e", "n", "-", "2", "b">>],
     [line |-> 1061, cls |-> "HFTorchDecoder", name |-> "Salesforce/codegen-6B-mono",
      conversational |-> <<>>, max_new_tokens |-> <<>>,
      id |-> <<"c", "o", "d", "e", "g", "e", "n", "-", "6", "b">>],
     [line |-> 1068, cls |-> "HFTorchDecoder", name |-> "Salesforce/codegen-16B-mono",
      conversational |-> <<>>, max_new_tokens |-> <<>>,
      id |-> <<"c", "o", "d", "e", "g", "e", "n", "-", "1", "6", "b">>],
     [line |-> 1075, cls |-> "Codegen2Decoder", name |-> "Salesforce/codegen2-1B",
      conversational |-> <<>>, max_new_tokens |-> <<>>,
      id |-> <<"c", "o", "d", "e", "g", "e", "n", "2", "-", "1", "b">>],
     [line |-> 1082, cls |-> "Codegen2Decoder", name |-> "Salesforce/codegen2-3_7B",
      conversational |-> <<>>, max_new_tokens |-> <<>>,
      id |-> <<"c", "o", "d", "e", "g", "e", "n", "2", "-", "3", "b">>],
     [line |-> 1089, cls |-> "Codegen2Decoder", name |-> "Salesforce/codegen2-7B",
      conversational |-> <<>>, max_new_tokens |-> <<>>,
      id |-> <<"c", "o", "d", "e", "g", "e", "n", "2", "-", "7", "b">>],
     [line |-> 1096, cls |-> "Codegen2Decoder", name |-> "Salesforce/codegen2-16B",
      conversational |-> <<>>, max_new_tokens |-> <<>>,
      id |-> <<"c", "o", "d", "e", "g", "e", "n", "2", "-", "1", "6", "b">>],
     [line |-> 1107, cls |-> "HFTorchDecoder", name |-> "NinedayWang/PolyCoder-2.7B",
      conversational |-> <<>>, max_new_tokens |-> <<>>,
      id |-> <<"p", "o", "l", "y", "c", "o", "d", "e", "r">>],
     [line |-> 1113, cls |-> "SantaCoder", name |-> "bigcode/santacoder",
      conversational |-> <<>>, max_new_tokens |-> <<>>,
      id |-> <<"s", "a", "n", "t", "a", "c", "o", "d", "e", "r">>],
     [line |-> 1120, cls |-> "IncoderDecoder", name |-> "facebook/incoder-1B",
      conversational |-> <<>>, max_new_tokens |-> <<>>,
      id |-> <<"i", "n", "c", "o", "d", "e", "r", "-", "1", "b">>],
     [line |-> 1124, cls |-> "IncoderDecoder", name |-> "facebook/incoder-6B",
      conversational |-> <<>>, max_new_tokens |-> <<>>,
      id |-> <<"i", "n", "c", "o", "d", "e", "r", "-", "6", "b">>],
     [line |-> 1128, cls |-> "HFTorchDecoder", name |-> "StabilityAI/stablelm-base-alpha-7b",
      conversational |-> <<>>, max_new_tokens |-> <<>>,
      id |-> <<"s", "t", "a", "b", "l", "e", "l", "m", "-", "7", "b">>],
     [line |-> 1148, cls |-> "HFTorchDecoder", name |-> "EleutherAI/gpt-neo-2.7B",
      conversational |-> <<>>, max_new_tokens |-> <<>>,
      id |-> <<"g", "p", "t", "n", "e", "o", "-", "2", "b">>],
     [line |-> 1154, cls |-> "HFTorchDecoder", name |-> "EleutherAI/gpt-j-6B",
      conversational |-> <<>>, max_new_tokens |-> <<>>,
      id |-> <<"g", "p", "t", "-", "j">>],
     [line |-> 1173, cls |-> "CodeT5P", name |-> "Salesforce/codet5p-2b",
      conversational |-> <<>>, max_new_tokens |-> <<>>,
      id |-> <<"c", "o", "d", "e", "t", "5", "p", "-", "2", "b">>],
     [line |-> 1179, cls |-> "CodeT5P", name |-> "Salesforce/codet5p-6b",
      conversational |-> <<>>, max_new_tokens |-> <<>>,
      id |-> <<"c", "o", "d", "e", "t", "5", "p", "-", "6", "b">>],
     [line |-> 1185, cls |-> "CodeT5P", name |-> "Salesforce/codet5p-16b",
      conversational |-> <<>>, max_new_tokens |-> <<>>,
      id |-> <<"c", "o", "d", "e", "t", "5", "p", "-", "1", "6", "b">>],
     [line |-> 1254, cls |-> "Magicoder", name |-> "ise-uiuc/Magicoder-S-DS-6.7B",
      conversational |-> <<TRUE>>, max_new_tokens |-> <<>>,
      id |-> <<"m", "a", "g", "i", "c", "o", "d", "e", "r", "-", "s", "-",
          "d", "s", "-", "6", ".", "7", "b">>],
     [line |-> 1261, cls |-> "Magicoder", name |-> "ise-uiuc/Magicoder-S-CL-7B",
      conversational |-> <<TRUE>>, max_new_tokens |-> <<>>,
      id |-> <<"m", "a", "g", "i", "c", "o", "d", "e", "r", "-", "s", "-",
          "c", "l", "-", "7", "b">>],
     [line |-> 1268, cls |-> "Alpaca", name |-> "WizardLM/WizardCoder-33B-V1.1",
      conversational |-> <<TRUE>>, max_new_tokens |-> <<>>,
      id |-> <<"w", "i", "z", "a", "r", "d", "c", "o", "d", "e", "r", "-",
          "3", "3", "b", "-", "v", "1", ".", "1">>],
     [line |-> 1276, cls |-> "Alpaca", name |-> "WizardLM/WizardCoder-Python-34B-V1.0",
      conversational |-> <<TRUE>>, max_new_tokens |-> <<>>,
      id |-> <<"w", "i", "z", "a", "r", "d", "c", "o", "d", "e", "r", "-",
          "3", "4", "b">>],
     [line |-> 1284, cls |-> "Alpaca", name |-> "WizardLM/WizardCoder-15B-V1.0",
      conversational |-> <<TRUE>>, max_new_tokens |-> <<>>,
      id |-> <<"w", "i", "z", "a", "r", "d", "c", "o", "d", "e", "r", "-",
          "1", "5", "b">>],
     [line |-> 1292, cls |-> "Alpaca", name |-> "WizardLM/WizardCoder-Python-7B-V1.0",
      conversational |-> <<TRUE>>, max_new_tokens |-> <<>>,
      id |-> <<"w", "i", "z", "a", "r", "d", "c", "o", "d", "e", "r", "-",
          "7", "b">>],
     [line |-> 1300, cls |-> "HFTorchDecoder", name |-> "Nondzu/Mistral-7B-codealpaca-lora",
      conversational |-> <<>>, max_new_tokens |-> <<>>,
      id |-> <<"m", "i", "s", "t", "r", "a", "l", "-", "7", "b", "-", "c",
          "o", "d", "e", "a", "l", "p", "a", "c", "a">>],
     [line |-> 1307, cls |-> "HFTorchDecoder", name |-> "HuggingFaceH4/zephyr-7b-beta",
      conversational |-> <<>>, max_new_tokens |-> <<>>,
      id |-> <<"z", "e", "p", "h", "y", "r", "-", "7", "b">>],
     [line |-> 1313, cls |-> "HFTorchDecoder", name |-> "oobabooga/CodeBooga-34B-v0.1",
      conversational |-> <<>>, max_new_tokens |-> <<>>,
      id |-> <<"c", "o", "d", "e", "b", "o", "o", "g", "a", "-", "3", "4",
          "b">>],
     [line |-> 1320, cls |-> "Code", name |-> "ajibawa-2023/Code-13B",
      conversational |-> <<>>, max_new_tokens |-> <<>>,
      id |-> <<"c", "o", "d", "e", "-", "1", "3", "b">>],
     [line |-> 1324, cls |-> "Code", name |-> "ajibawa-2023/Code-33B",
      conversational |-> <<>>, max_new_tokens |-> <<>>,
      id |-> <<"c", "o", "d", "e", "-", "3", "3", "b">>],
     [line |-> 1330, cls |-> "VLlmDecoder", name |-> "Phind/Phind-CodeLlama-34B-v2",
      conversational |-> <<>>, max_new_tokens |-> <<>>,
      id |-> <<"p", "h", "i", "n", "d", "-", "c", "o", "d", "e", "-", "l",
          "l", "a", "m", "a", "-", "3", "4", "b", "-", "v", "2">>],
     [line |-> 1336, cls |-> "Code", name |-> "ajibawa-2023/Python-Code-33B",
      conversational |-> <<>>, max_new_tokens |-> <<>>,
      id |-> <<"p", "y", "t", "h", "o", "n", "-", "c", "o", "d", "e", "-",
          "3", "3", "b">>],
     [line |-> 1342, cls |-> "Code", name |-> "ajibawa-2023/Python-Code-13B",
      conversational |-> <<>>, max_new_tokens |-> <<>>,
      id |-> <<"p", "y", "t", "h", "o", "n", "-", "c", "o", "d", "e", "-",
          "1", "3", "b">>],
     [line |-> 1348, cls |-> "HFTorchDecoder", name |-> "mistralai/Mistral-7B-v0.1",
      conversational |-> <<>>, max_new_tokens |-> <<>>,
      id |-> <<"m", "i", "s", "t", "r", "a", "l", "-", "7", "b">>],
     [line |-> 1354, cls |-> "ChatML", name |-> "cognitivecomputations/dolphin-2.6-mixtral-8x7b",
      conversational |-> <<>>, max_new_tokens |-> <<768>>,
      id |-> <<"d", "o", "l", "p", "h", "i", "n", "-", "2", ".", "6">>],
     [line |-> 1361, cls |-> "Solar", name |-> "upstage/SOLAR-10.7B-Instruct-v1.0",
      conversational |-> <<TRUE>>, max_new_tokens |-> <<>>,
      id |-> <<"s", "o", "l", "a", "r", "-", "1", "0", ".", "7", "b", "-",
          "i", "n", "s", "t", "r", "u", "c", "t">>],
     [line |-> 1369, cls |-> "ChatML", name |-> "beowolx/MistralHermes-CodePro-7B-v1",
      conversational |-> <<>>, max_new_tokens |-> <<768>>,
      id |-> <<"m", "i", "s", "t", "r", "a", "l", "-", "h", "e", "r", "m",
          "e", "s", "-", "c", "o", "d", "e", "p", "r", "o", "-", "7", "b">>],
     [line |-> 1376, cls |-> "VLlmDecoder", name |-> "microsoft/phi-2",
      conversational |-> <<>>, max_new_tokens |-> <<>>,
      id |-> <<"p", "h", "i", "-", "2">>],
     [line |-> 1384, cls |-> "OpenChat", name |-> "openchat/openchat-3.5-0106",
      conversational |-> <<TRUE>>, max_new_tokens |-> <<>>,
      id |-> <<"o", "p", "e", "n", "c", "h", "a", "t">>],
     [line |-> 1391, cls |-> "Alpaca", name |-> "uukuguy/speechless-codellama-34b-v2.0",
      conversational |-> <<TRUE>>, max_new_tokens |-> <<>>,
      id |-> <<"s", "p", "e", "e", "c", "h", "l", "e", "s", "s", "-", "c",
          "o", "d", "e", "l", "l", "a", "m", "a", "-", "3", "4", "b">>],
     [line |-> 1399, cls |-> "Alpaca", name |-> "uukuguy/speechless-code-mistral-7b-v1.0",
      conversational |-> <<TRUE>>, max_new_tokens |-> <<>>,
      id |-> <<"s", "p", "e", "e", "c", "h", "l", "e", "s", "s", "-", "m",
          "i", "s", "t", "r", "a", "l", "-", "7", "b">>],
     [line |-> 1407, cls |-> "Speechless", name |-> "uukuguy/speechless-coder-ds-6.7b",
      conversational |-> <<TRUE>>, max_new_tokens |-> <<>>,
      id |-> <<"s", "p", "e", "e", "c", "h", "l", "e", "s", "s", "-", "c",
          "o", "d", "e", "r", "-", "d", "s", "-", "6", ".", "7", "b">>],
     [line |-> 1415, cls |-> "Speechless", name |-> "uukuguy/speechless-coding-7b-16k-tora",
      conversational |-> <<TRUE>>, max_new_tokens |-> <<>>,
      id |-> <<"s", "p", "e", "e", "c", "h", "l", "e", "s", "s", "-", "c",
          "o", "d", "i", "n", "g", "-", "7", "b", "-", "1", "6", "k", "-",
          "t", "o", "r", "a">>],
     [line |-> 1422, cls |-> "Alpaca", name |-> "budecosystem/code-millenials-34b",
      conversational |-> <<TRUE>>, max_new_tokens |-> <<>>,
      id |-> <<"c", "o", "d", "e", "-", "m", "i", "l", "l", "e", "n", "i",
          "a", "l", "s", "-", "3", "4", "b">>],
     [line |-> 1430, cls |-> "Alpaca", name |-> "xDAN-AI/xDAN-L1-Chat-dpo-qlora-v1",
      conversational |-> <<TRUE>>, max_new_tokens |-> <<>>,
      id |-> <<"x", "d", "a", "n", "-", "l", "1", "-", "c", "h", "a", "t">>],
     [line |-> 1437, cls |-> "HFTorchDecoder", name |-> "stabilityai/stable-code-3b",
      conversational |-> <<>>, max_new_tokens |-> <<>>,
      id |-> <<"s", "t", "a", "b", "l", "e", "-", "c", "o", "d", "e", "-",
          "3", "b">>],
     [line |-> 1444, cls |-> "XwinCoder", name |-> "Xwin-LM/XwinCoder-34B",
      conversational |-> <<>>, max_new_tokens |-> <<>>,
      id |-> <<"x", "w", "i", "n", "c", "o", "d", "e", "r", "-", "3", "4",
          "b">>],
     [line |-> 1450, cls |-> "Zyte", name |-> "aihub-app/zyte-1B",
      conversational |-> <<TRUE>>, max_new_tokens |-> <<>>,
      id |-> <<"z", "y", "t", "e", "-", "1", "b">>],
     [line |-> 1457, cls |-> "WhiteRabbitNeo", name |-> "whiterabbitneo/WhiteRabbitNeo-33B-v-1",
      conversational |-> <<TRUE>>, max_new_tokens |-> <<>>,
      id |-> <<"w", "h", "i", "t", "e", "-", "r", "a", "b", "b", "i", "t",
          "-", "n", "e", "o", "-", "3", "3", "b", "-", "v", "1">>],
     [line |-> 1475, cls |-> "OpenCodeInterpreterDecoder", name |-> "m-a-p/OpenCodeInterpreter-DS-6.7B",
      conversational |-> <<TRUE>>, max_new_tokens |-> <<>>,
      id |-> <<"o", "p", "e", "n", "c", "o", "d", "e", "i", "n", "t", "e",
          "r", "p", "r", "e", "t", "e", "r", "-", "d", "s", "-", "6", ".",
          "7", "b">>],
     [line |-> 1482, cls |-> "OpenCodeInterpreterDecoder", name |-> "m-a-p/OpenCodeInterpreter-DS-33B",
      conversational |-> <<TRUE>>, max_new_tokens |-> <<>>,
      id |-> <<"o", "p", "e", "n", "c", "o", "d", "e", "i", "n", "t", "e",
          "r", "p", "r", "e", "t", "e", "r", "-", "d", "s", "-", "3", "3",
          "b">>],
     [line |-> 1489, cls |-> "MistralChatDecoder", name |-> "mistral-large-latest",
      conversational |-> <<TRUE>>, max_new_tokens |-> <<>>,
      id |-> <<"m", "i", "s", "t", "r", "a", "l", "-", "l", "a", "r", "g",
          "e", "-", "l", "a", "t", "e", "s", "t">>]>>

\* The branch `name == "..."` starting between lines lo and hi that name meets.
Known(name, lo, hi) ==
    {r \in Range(KnownModels) : r.id = name /\ lo <= r.line /\ r.line <= hi}

\* What make_model comes to before any constructor runs: a constructor call
\* or an exception.
Call(cls, name, conversational, max_new_tokens) ==
    [kind |-> "call", cls |-> cls, name |-> name,
     conversational |-> conversational, max_new_tokens |-> max_new_tokens]
Fail(exc) == [kind |-> "raise", exc |-> exc]

\* re.compile(prefix + r"(\d+)b").findall(name): the groups of the matches, the
\* leftmost first.  <<>> stands for an empty list, <<g>> for one that starts
\* with g.
FindSize(name, prefix) ==
    LET after(i) == SubSeq(name, i + Len(prefix) + 1, Len(name))
        hits == {i \in Occurrences(prefix, name) :
                    LET run == DigitRun(after(i))
                    IN  /\ run # <<>>
                        /\ Len(run) < Len(after(i))
                        /\ after(i)[Len(run) + 1] = "b"}
    IN  IF hits = {} THEN <<>>
        ELSE <<DigitRun(after(CHOOSE i \in hits : \A j \in hits : i <= j))>>

\* re.compile(r"deepseek-coder-(\d+\.?\d*)b(.*)").findall(name), likewise; a
\* match gives the pair of its groups.
FindDeepseek(name) ==
    LET after(i) == SubSeq(name, i + Len(S_deepseek_coder_) + 1, Len(name))
        size(text) ==
            LET whole == DigitRun(text)
                rest == SubSeq(text, Len(whole) + 1, Len(text))
            IN  IF rest # <<>> /\ Head(rest) = "."
                THEN whole \o S_dot \o DigitRun(Tail(rest))
                ELSE whole
        hits == {i \in Occurrences(S_deepseek_coder_, name) :
                    LET text == after(i)
                    IN  /\ DigitRun(text) # <<>>
                        /\ Len(size(text)) < Len(text)
                        /\ text[Len(size(text)) + 1] = "b"}
    IN  IF hits = {} THEN <<>>
        ELSE LET text == after(CHOOSE i \in hits : \A j \in hits : i <= j)
             IN  <<[size |-> size(text),
                    tail |-> SubSeq(text, Len(size(text)) + 2, Len(text))]>>

\* elif name.startswith("starcoder"): (the first of the two)
Select_starcoder(name) ==
    LET matches == FindSize(name, S_starcoder2_)
    IN  IF matches = <<>> THEN Fail("IndexError")
        ELSE Call("VLlmDecoder",
                  N_starcoder2 \o FormatInt(ParseInt(matches[1])) \o S_b, <<>>, <<>>)

\* elif name.startswith("code-llama-"):
Select_code_llama(name) ==
    IF EndsWith(name, S_instruct)
    THEN LET nb == Split(name, S_dash)[3]
         IN  IF ~EndsWith(nb, S_b) THEN Fail(AssertionError)
             ELSE IF nb = S_70b
             THEN Call("CodeLlamaInstruct70B", N_CodeLlama70BInstruct, <<TRUE>>, <<>>)
             ELSE Call("CodeLlamaInstructSmall",
                       N_CodeLlama \o nb \o N_Instruct_hf, <<TRUE>>, <<>>)
    ELSE IF ~EndsWith(name, S_b) THEN Fail(AssertionError)
    ELSE LET parts == Split(name, S_dash)
             nb == parts[Len(parts)]
         IN  IF StartsWith(name, S_code_llama_multi)
             THEN Call("VLlmDecoder", N_CodeLlama \o nb \o N_hf, <<>>, <<>>)
             ELSE Call("VLlmDecoder", N_CodeLlama \o nb \o N_Python_hf, <<>>, <<>>)

\* elif name.startswith("deepseek-coder"):
Select_deepseek_coder(name) ==
    LET found == FindDeepseek(name)
    IN  IF found = <<>> THEN Fail("IndexError")
        ELSE LET matches == found[1]
                 nb == ParseFloat(matches.size)
                 parts == Split(matches.tail, S_dash)
                 version == parts[Len(parts)]
                 version_suffix ==
                     IF StartsWith(version, S_v) THEN S_dash \o version ELSE <<>>
             IN  IF In(S_instruct, name)
                 THEN Call("DeepSeekInstruct",
                           N_deepseek \o FormatNumber(nb) \o N_b_instruct
                               \o version_suffix, <<TRUE>>, <<>>)
                 ELSE Call("VLlmDecoder",
                           N_deepseek \o FormatNumber(nb) \o N_b_base
                               \o version_suffix, <<>>, <<>>)

\* elif "codegemma" in name:  The statements `import re` of the two branches
\* above make re a local name of make_model, and this branch does not run
\* them: its first statement reads a local name that is not bound.
Select_codegemma(name) ==
    LET re_is_bound == FALSE
        matches == FindSize(name, S_codegemma_)
    IN  IF ~re_is_bound THEN Fail("UnboundLocalError")
        ELSE IF matches = <<>> THEN Fail("IndexError")
        ELSE Call("CodeGemma",
                  N_CodeGemma \o FormatInt(ParseInt(matches[1])) \o S_b,
                  <<TRUE>>, <<>>)

\* The if/elif chain of make_model, in the order of the file.
Select(name) ==
    LET known(lo, hi) ==
            LET r == CHOOSE r \in Known(name, lo, hi) : TRUE
            IN  Call(r.cls, r.name, r.conversational, r.max_new_tokens)
    IN  IF Known(name, 1054, 1133) # {} THEN known(1054, 1133)
        ELSE IF StartsWith(name, S_gpt35) \/ StartsWith(name, S_gpt4)
        THEN Call("OpenAIChatDecoder", name, <<TRUE>>, <<>>)
        ELSE IF StartsWith(name, S_claude)
        THEN Call("AnthropicMessageDecoder", name, <<TRUE>>, <<>>)
        ELSE IF Known(name, 1148, 1157) # {} THEN known(1148, 1157)
        ELSE IF StartsWith(name, S_starcoder) THEN Select_starcoder(name)
        ELSE IF StartsWith(name, S_starcoder)
        THEN Call("StarCoderInfill", N_bigcode \o name, <<>>, <<>>)
        ELSE IF Known(name, 1173, 1190) # {} THEN known(1173, 1190)
        ELSE IF StartsWith(name, S_code_llama_) THEN Select_code_llama(name)
        ELSE IF StartsWith(name, S_deepseek_coder) THEN Select_deepseek_coder(name)
        ELSE IF Known(name, 1254, 1464) # {} THEN known(1254, 1464)
        ELSE IF In(S_codegemma, name) THEN Select_codegemma(name)
        ELSE IF Known(name, 1475, 1496) # {} THEN known(1475, 1496)
        ELSE Fail("ValueError: Invalid model name")

\* The statement that the chain comes to: the raise, or the constructor, which
\* runs with the module-level list as it is now.
Selected(sel, E, batch_size, temperature) ==
    IF sel.kind = "raise"
    THEN [kind |-> "raise", exc |-> sel.exc, EOS |-> E, decoder |-> <<>>]
    ELSE LET built ==
                 Construct(sel.cls, E, sel.name, batch_size, temperature,
                           IF sel.max_new_tokens = <<>> THEN DefaultMaxNewTokens
                           ELSE sel.max_new_tokens[1],
                           sel.conversational = <<TRUE>>)
         IN  [kind |-> "return", exc |-> "none", EOS |-> built[1],
              decoder |-> <<built[2]>>]

\* make_model(name, batch_size, temperature)
MakeModel(name, E, batch_size, temperature) ==
    Selected(Select(name), E, batch_size, temperature)

\* Identifiers a caller may pass: the known ones, the families with and without
\* a size, and others.
MaxDecoders == 2
Sizes == {<<>>, <<"7">>, <<"0", "7">>, <<"6", ".", "7">>, <<"7", "0">>}
Tails == {<<>>, S_b, S_b \o S_dash \o S_instruct,
          S_b \o <<"-", "b", "a", "s", "e">>,
          S_b \o S_dash \o S_instruct \o <<"-", "v", "1", ".", "5">>}
Identifiers ==
    {r.id : r \in Range(KnownModels)}
    \cup {p \o size \o tail :
             p \in {S_starcoder2_, S_code_llama_, S_code_llama_multi \o S_dash,
                    S_deepseek_coder_, S_codegemma_},
             size \in Sizes, tail \in Tails}
    \cup {<<>>, <<"l", "l", "a", "m", "a">>, S_starcoder, S_deepseek_coder,
          S_codegemma, S_claude \o <<"-", "3">>, S_gpt4 \o <<"t", "u", "r", "b", "o">>,
          S_gpt35 \o <<"t", "u", "r", "b", "o">>,
          <<"m", "y", "-">> \o S_codegemma_ \o <<"7", "b">>,
          S_code_llama_ \o S_instruct,
          S_starcoder \o <<"b", "a", "s", "e">>}

\* What is kept of a decoder constructed earlier: its class and its self.eos.
EosOf(d) == [cls |-> d.cls, shared |-> d.shared, eos |-> d.eos]

\* One call make_model(name) by the process, batch_size and temperature at
\* their defaults 1 and 0.8.
make_model ==
    /\ pc = "make"
    /\ Len(decoders) < MaxDecoders
    /\ \E name \in Identifiers :
          \E m \in {MakeModel(name, EOS, 1, 8)} :
              /\ outcome' = [name |-> name, kind |-> m.kind, exc |-> m.exc,
                             decoder |-> m.decoder]
              /\ EOS' = m.EOS
              /\ decoders' = IF m.kind = "return"
                             THEN Append(decoders, EosOf(m.decoder[1]))
                             ELSE decoders
    /\ pc' = "made"
    /\ UNCHANGED <<self, self0, args, loc, calls, replies, ret>>
    /\ UNCHANGED <<t_output, t_eos, t_result, StopVars>>

\* The process goes on with what make_model gave it, towards its next call.
Process_continue ==
    /\ pc = "made"
    /\ pc' = "make"
    /\ outcome' = NoMade
    /\ UNCHANGED <<EOS, decoders, self, self0, args, loc, calls, replies, ret>>
    /\ UNCHANGED <<t_output, t_eos, t_result, StopVars>>

InitMake ==
    /\ EOS = EOS0
    /\ NoMakeModel
    /\ pc = "make"
    /\ self = <<>>
    /\ self0 = <<>>
    /\ args = NoArgs
    /\ loc = NoLoc
    /\ calls = <<>>
    /\ replies = <<>>
    /\ ret = NoRet
    /\ t_output = Pack(<<>>)
    /\ t_eos = <<>>
    /\ t_result = Pack(<<>>)
    /\ NoCriteria

NextMake == make_model \/ Process_continue

SpecMake == InitMake /\ [][NextMake]_vars

(***************************************************************************)
(* EndOfFunctionCriteria: the stopping criterion that the Hugging Face     *)
(* decoders hand to model.generate.  A token is written as the text it     *)
(* decodes to, a row of input_ids is a sequence of tokens, and             *)
(* batch_decode joins the texts of a row.  The tokenizer is the caller's   *)
(* object: `tokenizer` gives, for each marker, the number of tokens that   *)
(* tokenizer.encode returns for it.  Rows are counted from 1 (Python       *)
(* counts them from 0).                                                    *)
(***************************************************************************)
MaxGenerated == 2
MaxEncoded == 2

Max(a, b) == IF a >= b THEN a ELSE b

T_x == <<"x">>
T_open == <<"<", "/", "s">>
T_close == <<">", "<", "|">>
Vocabulary == {T_x, M_s, T_open, T_close}

\* len(x[start:stop]) for a row x of n tokens, stop possibly negative.
SliceLength(n, start, stop) ==
    LET hi == IF stop < 0 THEN Max(n + stop, 0) ELSE Min(stop, n)
    IN  Max(hi - Min(start, n), 0)

\* self.tokenizer.batch_decode(input_ids[:, self.start_length :])
batch_decode(ids, start_length) ==
    [index \in DOMAIN ids |->
        Concat(SubSeq(ids[index], start_length + 1, Len(ids[index])))]

\* any([stop_string in decoded_generation for stop_string in self.eos])
Finished(eos, decoded_generation) ==
    \E j \in DOMAIN eos : In(eos[j], decoded_generation)

\* The loop "for stop_string in self.eos" from its j-th marker on: every
\* marker found in the text assigns self.end_length[index] anew.
RECURSIVE EndLengthLoop(_, _, _, _, _, _, _)
EndLengthLoop(eos, j, decoded_generation, n, start_length, tok, length) ==
    IF j > Len(eos) THEN length
    ELSE EndLengthLoop(eos, j + 1, decoded_generation, n, start_length, tok,
            IF In(eos[j], decoded_generation)
            THEN SliceLength(n, start_length, 0 - tok[eos[j]])
            ELSE length)

\* "index not in self.end_length": ensures first time we see it.
NewRecord_Always(end_length, index) == TRUE

NewRecord(end_length, index) == index \notin DOMAIN end_length

\* all(done)
All_Any(done) == \E index \in DOMAIN done : done[index]

All(done) == \A index \in DOMAIN done : done[index]

\* __call__(input_ids, scores): the records after the call and its result.
EndOfFunctionCriteria_call(c, tok, ids) ==
    LET decoded_generations == batch_decode(ids, c.start_length)
        done == [index \in DOMAIN ids |->
                    Finished(c.eos, decoded_generations[index])]
        recorded == {index \in DOMAIN ids :
                        done[index] /\ NewRecord(c.end_length, index)}
    IN  [end_length |->
            [index \in DOMAIN c.end_length \cup recorded |->
                IF index \in recorded
                THEN EndLengthLoop(c.eos, 1, decoded_generations[index],
                                   Len(ids[index]), c.start_length, tok, 0)
                ELSE c.end_length[index]],
         result |-> All(done)]

\* EndOfFunctionCriteria(start_length=len(input_tokens[0]), eos=self.eos,
\* tokenizer=self.tokenizer)
EndOfFunctionCriteria_init(start_length, eos) ==
    [start_length |-> start_length, eos |-> eos, end_length |-> <<>>]

\* The marker lists of HFTorchDecoder and of IncoderDecoder.
EosLists == {EOS0, EOS0 \o IncoderExtraEos}

\* The prompts as token rows; the second holds a marker of either list.
InputTokens == {<<T_x>>, <<T_open, T_close>>}

\* The number of rows: num_return_sequences.
Rows == {1, 2}

\* The markers that the texts over Vocabulary can hold.
Appearing == {M_s, M_bar}

Tokenizers(eos) ==
    {tok \in [Range(eos) -> 0 .. MaxEncoded] :
        \A m \in Range(eos) \ Appearing : tok[m] = 1}

Generated == Len(input_ids[1]) - criteria.start_length

\* One step of model.generate: every row gets one more token, and the
\* criterion is called on the rows; generation goes on while it returns
\* False and max_new_tokens allows.
generate_step ==
    /\ pc = "generate"
    /\ halt # "True"
    /\ Generated < MaxGenerated
    /\ \E next_tokens \in [DOMAIN input_ids -> Vocabulary] :
          LET ids == [index \in DOMAIN input_ids |->
                         Append(input_ids[index], next_tokens[index])]
              r == EndOfFunctionCriteria_call(criteria, tokenizer, ids)
          IN  /\ input_ids' = ids
              /\ criteria' = [criteria EXCEPT !.end_length = r.end_length]
              /\ halt' = IF r.result THEN "True" ELSE "False"
    /\ UNCHANGED <<EOS, self, self0, pc, args, loc, calls, replies, ret>>
    /\ UNCHANGED <<t_output, t_eos, t_result, MakeVars, tokenizer>>

InitStop ==
    /\ EOS = EOS0
    /\ NoMakeModel
    /\ pc = "generate"
    /\ self = <<>>
    /\ self0 = <<>>
    /\ args = NoArgs
    /\ loc = NoLoc
    /\ calls = <<>>
    /\ replies = <<>>
    /\ ret = NoRet
    /\ t_output = Pack(<<>>)
    /\ t_eos = <<>>
    /\ t_result = Pack(<<>>)
    /\ \E input_tokens \in InputTokens, eos \in EosLists, n \in Rows :
          /\ criteria = EndOfFunctionCriteria_init(Len(input_tokens), eos)
          /\ tokenizer \in Tokenizers(eos)
          /\ input_ids = [index \in 1 .. n |-> input_tokens]
    /\ halt = "none"

NextStop == generate_step

SpecStop == InitStop /\ [][NextStop]_vars

(***************************************************************************)
(* CodeT5P.codegen with self.model.generate shown step by step: the one    *)
(* EndOfFunctionCriteria object made before the while loop is handed to    *)
(* every generate call of the loop, and generate may raise the             *)
(* out-of-memory RuntimeError at any of its steps.                         *)
(***************************************************************************)
\* The tokens that batch_decode leaves out under skip_special_tokens=True.
SpecialTokens == {M_s}

\* self.tokenizer.batch_decode(gen_seqs, skip_special_tokens=...)
batch_decode_skip(gen_seqs, skip_special_tokens) ==
    [index \in DOMAIN gen_seqs |->
        Concat(SelectSeq(gen_seqs[index],
                         LAMBDA t : ~(skip_special_tokens /\ t \in SpecialTokens)))]

\* codegen up to the first generate call of the while loop.
CodeT5P_codegen_scores ==
    /\ self.cls = "CodeT5P"
    /\ \E input_tokens \in InputTokens, num_samples \in Rows :
          /\ Begin(Concat(input_tokens), TRUE, num_samples)
          /\ IF ~TemperatureZeroAsserts(TRUE, num_samples)
             THEN /\ Reject
                  /\ UNCHANGED <<criteria, input_ids>>
             ELSE /\ criteria' = EndOfFunctionCriteria_init(Len(input_tokens),
                                                           Eos(self, EOS))
                  /\ loc' = [NoLoc EXCEPT !.input = Concat(input_tokens),
                                          !.max_new_tokens = self.max_new_tokens]
                  /\ input_ids' =
                         [index \in 1 .. EffectiveBatch(self.batch_size, num_samples)
                             |-> input_tokens]
                  /\ IF self.max_new_tokens > 0
                     THEN pc' = "CodeT5P.generate" /\ UNCHANGED ret
                     ELSE Finish(Raise("UnboundLocalError"))
                  /\ UNCHANGED <<calls, replies>>
    /\ UNCHANGED <<EOS, self, t_output, t_eos, t_result, MakeVars, tokenizer, halt>>

\* One step of the generate call in progress.
CodeT5P_generate_step ==
    /\ pc = "CodeT5P.generate"
    /\ halt # "True"
    /\ Generated < loc.max_new_tokens
    /\ \E next_tokens \in [DOMAIN input_ids -> Vocabulary] :
          LET ids == [index \in DOMAIN input_ids |->
                         Append(input_ids[index], next_tokens[index])]
              r == EndOfFunctionCriteria_call(criteria, tokenizer, ids)
          IN  /\ input_ids' = ids
              /\ criteria' = [criteria EXCEPT !.end_length = r.end_length]
              /\ halt' = IF r.result THEN "True" ELSE "False"
    /\ UNCHANGED <<EOS, self, self0, pc, args, loc, calls, replies, ret>>
    /\ UNCHANGED <<t_output, t_eos, t_result, MakeVars, tokenizer>>

\* The generate call in progress raises "CUDA out of memory": the except
\* clause, continue, the loop test and, if it passes, the next generate call,
\* with the same scores and from the prompt again.
CodeT5P_generate_oom ==
    /\ pc = "CodeT5P.generate"
    /\ halt # "True"
    /\ Generated < loc.max_new_tokens
    /\ loc' = [loc EXCEPT !.max_new_tokens = Shrink(loc.max_new_tokens)]
    /\ IF Shrink(loc.max_new_tokens) > 0
       THEN /\ input_ids' = [index \in DOMAIN input_ids |->
                                SubSeq(input_ids[index], 1, criteria.start_length)]
            /\ halt' = "none"
            /\ UNCHANGED <<pc, ret>>
       ELSE /\ Finish(Raise("UnboundLocalError"))
            /\ UNCHANGED <<input_ids, halt>>
    /\ UNCHANGED <<EOS, self, self0, args, calls, replies>>
    /\ UNCHANGED <<t_output, t_eos, t_result, MakeVars, tokenizer, criteria>>

\* The generate call returns, the criterion having returned True or
\* max_new_tokens being generated: break, decoding and trimming.
CodeT5P_generate_return ==
    /\ pc = "CodeT5P.generate"
    /\ halt = "True" \/ Generated = loc.max_new_tokens
    /\ Finish(Return(
          [index \in DOMAIN input_ids |->
              Replace(TrimEos(batch_decode_skip(
                                  [i \in DOMAIN input_ids |->
                                      SubSeq(input_ids[i], criteria.start_length + 1,
                                             Len(input_ids[i]))],
                                  self.skip_special_tokens)[index],
                              Eos(self, EOS)),
                      Tab, FourSpaces)]))
    /\ UNCHANGED <<EOS, self, self0, args, loc, calls, replies>>
    /\ UNCHANGED <<t_output, t_eos, t_result, MakeVars, StopVars>>

InitRetry ==
    /\ \E batch_size \in BatchSizes, max_new_tokens \in 0 .. MaxGenerated :
          LET made == Construct("CodeT5P", EOS0, "Salesforce/codet5p-2b", batch_size,
                                8, max_new_tokens, FALSE)
          IN  /\ EOS = made[1]
              /\ self = made[2]
              /\ self0 = made[2]
    /\ pc = "idle"
    /\ args = NoArgs
    /\ loc = NoLoc
    /\ calls = <<>>
    /\ replies = <<>>
    /\ ret = NoRet
    /\ t_output = Pack(<<>>)
    /\ t_eos = <<>>
    /\ t_result = Pack(<<>>)
    /\ NoMakeModel
    /\ criteria = [start_length |-> 0, eos |-> <<>>, end_length |-> <<>>]
    /\ tokenizer \in Tokenizers(EOS0)
    /\ input_ids = <<>>
    /\ halt = "none"

NextRetry ==
    \/ CodeT5P_codegen_scores
    \/ CodeT5P_generate_step
    \/ CodeT5P_generate_oom
    \/ CodeT5P_generate_return

SpecRetry == InitRetry /\ [][NextRetry]_vars

(***************************************************************************)
(* Properties.                                                             *)
(***************************************************************************)
IsPrefix(p, s) == Len(p) <= Len(s) /\ SubSeq(s, 1, Len(p)) = p

AnyMarkerIn(text, eos) == \E m \in Range(eos) : In(m, text)

\* The smallest position at which some marker of eos occurs in text.
EarliestMarker(text, eos) ==
    LET occ == UNION {Occurrences(m, text) : m \in Range(eos)}
    IN  CHOOSE i \in occ : \A j \in occ : i <= j

\* C1: the trimmed result is a prefix of the decoded text, and it is the whole
\* text if and only if no marker of the list occurs in the text, whatever the
\* length of the text.
C1_TrimPrefixUnchangedIffNoMarker ==
    pc = "trimmed" =>
        /\ IsPrefix(Unpack(t_result), Unpack(t_output))
        /\ (t_result = t_output) <=> ~AnyMarkerIn(Unpack(t_output), t_eos)

\* C2: when some marker occurs in the decoded text, the trimmed result is the
\* text cut exactly at the smallest first-occurrence position over the markers
\* present, wherever that position lies (the empty text when it is 0).
C2_TrimCutsAtEarliestMarker ==
    (pc = "trimmed" /\ AnyMarkerIn(Unpack(t_output), t_eos)) =>
        Unpack(t_result) =
            SubSeq(Unpack(t_output), 1, EarliestMarker(Unpack(t_output), t_eos))

InCall == pc \in {"CodeT5P.while", "Mistral.for", "Anthropic.for", "done"}

Returned == pc = "done" /\ ret.kind = "return"

\* The call was refused by an assertion: nothing was asked of the backend and
\* nothing is returned.
Rejected ==
    /\ pc = "done"
    /\ ret = Raise(AssertionError)
    /\ calls = <<>>


\* The classes whose codegen opens with the temperature-zero assertions.
AssertingClasses == (HFClasses \ {"IncoderDecoder"}) \cup {"CodeT5P"}

\* The text cut at its earliest marker, or whole when it has none.
CutAtEarliest(text, eos) ==
    IF AnyMarkerIn(text, eos)
    THEN SubSeq(text, 1, EarliestMarker(text, eos))
    ELSE text

\* the smaller of the configured batch size and the requested number
SmallerOf(batch_size, num_samples) ==
    IF batch_size <= num_samples THEN batch_size ELSE num_samples

C4_GreedyNeedsZeroTemperatureOneSample ==
    (InCall /\ ~args.do_sample /\ (self0.temperature # 0 \/ args.num_samples # 1))
        => Rejected

\* C4 (amended): a call with do_sample false is refused by an assertion exactly
\* when the decoder is a Hugging Face decoder other than IncoderDecoder, or
\* CodeT5P, with temperature 0 and num_samples other than 1, or is an
\* AnthropicMessageDecoder and min(batch_size, num_samples) is not 1.  A
\* temperature other than 0 never refuses it, and MistralChatDecoder sets its
\* temperature to 0.
C4_GreedyRefusedExactlyWhen ==
    (InCall /\ ~args.do_sample) =>
        /\ Rejected <=>
              \/ /\ self.cls \in AssertingClasses
                 /\ self0.temperature = 0
                 /\ args.num_samples # 1
              \/ /\ self.cls = "AnthropicMessageDecoder"
                 /\ SmallerOf(self0.batch_size, args.num_samples) # 1
        /\ self.cls = "MistralChatDecoder" => self.temperature = 0

\* A greedy call on a decoder of temperature 0.8 asking for two samples ran
\* and returned two completions.
C4_Witness ==
    /\ Returned
    /\ self.cls = "HFTorchDecoder"
    /\ ~args.do_sample
    /\ self0.temperature = 8
    /\ args.num_samples = 2
    /\ Len(ret.outputs) = 2

\* C5: on every decoder class, a call with do_sample true on a decoder whose
\* temperature is zero or negative is refused before the backend is invoked.
C5_SamplingNeedsPositiveTemperature ==
    (InCall /\ args.do_sample /\ self0.temperature <= 0) => Rejected

\* C6: a codegen call that returns asks the backend for exactly
\* min(batch_size, num_samples) completions (the looping decoders in that many
\* requests of one) and returns exactly that many strings.
C6_BatchIsMinOfBatchSizeAndNumSamples ==
    Returned =>
        LET b == SmallerOf(self0.batch_size, args.num_samples)
        IN  /\ Len(ret.outputs) = b
            /\ Len(ret.outputs) <= self0.batch_size
            /\ Len(ret.outputs) <= args.num_samples
            /\ IF self.cls \in {"MistralChatDecoder", "AnthropicMessageDecoder"}
               THEN /\ Len(calls) = b
                    /\ \A i \in DOMAIN calls : calls[i].n = 1
               ELSE /\ calls # <<>>
                    /\ \A i \in DOMAIN calls : calls[i].n = b

\* More samples were asked for than the batch size: one call returned only the
\* batch.
C6_Witness ==
    /\ Returned
    /\ self.cls = "HFTorchDecoder"
    /\ args.num_samples > self0.batch_size
    /\ Len(ret.outputs) = self0.batch_size
    /\ calls[1].n = self0.batch_size

\* C7 (as stated): on every decoder class, a call on a decoder of temperature 0
\* with num_samples greater than 1 is refused by an assertion, whatever the
\* batch size.
C7_ZeroTemperatureManySamplesRefused ==
    (InCall /\ self0.temperature = 0 /\ args.num_samples > 1) => Rejected

\* C7 (amended): a call on a decoder of temperature 0 with num_samples greater
\* than 1 is refused by an assertion, before the backend is invoked, by the
\* Hugging Face decoders other than IncoderDecoder and by CodeT5P whatever the
\* batch size; by the vLLM decoders, OpenAIChatDecoder and MistralChatDecoder
\* only when do_sample is true; by AnthropicMessageDecoder when do_sample is
\* true or min(batch_size, num_samples) is not 1; never by IncoderDecoder.
C7_ZeroTemperatureRefusedExactlyWhen ==
    (InCall /\ self0.temperature = 0 /\ args.num_samples > 1) =>
        (Rejected <=>
            \/ self.cls \in AssertingClasses
            \/ /\ self.cls \in VLlmClasses \cup {"OpenAIChatDecoder", "MistralChatDecoder"}
               /\ args.do_sample
            \/ /\ self.cls = "AnthropicMessageDecoder"
               /\ \/ args.do_sample
                  \/ SmallerOf(self0.batch_size, args.num_samples) # 1)

\* A Hugging Face decoder of temperature 0 and batch size 1 refused a greedy
\* call for two samples.
C7_Witness ==
    /\ Rejected
    /\ self.cls = "HFTorchDecoder"
    /\ self0.temperature = 0
    /\ self0.batch_size = 1
    /\ ~args.do_sample
    /\ args.num_samples = 2

\* C8: in CodeT5P.codegen an invocation of the backend after the first follows an
\* out-of-memory failure and is given floor(0.8 x the previous budget), which is
\* smaller than the previous budget; a call makes no more invocations than its
\* initial budget; and the loop ends, even when every invocation runs out of
\* memory.
C8_RetryShrinksAndTerminates ==
    /\ [](self.cls = "CodeT5P" =>
             /\ \A i \in 2 .. Len(calls) :
                   /\ replies[i - 1].exc = OOM
                   /\ calls[i].max_tokens = (4 * calls[i - 1].max_tokens) \div 5
                   /\ calls[i].max_tokens < calls[i - 1].max_tokens
             /\ Len(calls) <= self.max_new_tokens)
    /\ (pc = "CodeT5P.while" ~> pc = "done")

\* Every invocation ran out of memory, until the budget was used up.
C8_Witness ==
    /\ self.cls = "CodeT5P"
    /\ pc = "done"
    /\ Len(calls) >= 3
    /\ \A i \in DOMAIN replies : replies[i].exc = OOM

\* The call met its assertions, every invocation of the backend ran out of
\* memory, and the budget has shrunk to zero (or was zero from the start).
BudgetExhausted ==
    /\ pc = "done"
    /\ self.cls = "CodeT5P"
    /\ self0.temperature = 0 => (~args.do_sample /\ args.num_samples = 1)
    /\ \A i \in DOMAIN replies : replies[i].exc = OOM
    /\ IF calls = <<>>
       THEN self.max_new_tokens <= 0
       ELSE (4 * calls[Len(calls)].max_tokens) \div 5 = 0

\* C9: when generation fails with out-of-memory until the budget reaches zero,
\* or the budget is zero from the start, codegen fails, and the failure given to
\* the caller is the out-of-memory failure; no list is returned.
C9_ExhaustedBudgetSurfacesOutOfMemory ==
    BudgetExhausted => (ret.kind = "raise" /\ ret.exc = OOM)

\* C10: a failure of the backend that is not out-of-memory is not retried: it
\* is the last invocation of the call, codegen has ended with that same
\* failure, and the budget is what that invocation was given.
C10_OtherFailuresAreNotRetried ==
    \A i \in DOMAIN replies :
        replies[i].exc \notin {"none", OOM} =>
            /\ i = Len(replies)
            /\ pc = "done"
            /\ ret = Raise(replies[i].exc)
            /\ self.max_new_tokens = self0.max_new_tokens
            /\ self.cls = "CodeT5P" => loc.max_new_tokens = calls[i].max_tokens

\* After one out-of-memory retry the backend failed otherwise, and codegen
\* ended with that failure.
C10_Witness ==
    /\ self.cls = "CodeT5P"
    /\ pc = "done"
    /\ Len(replies) = 2
    /\ replies[1].exc = OOM
    /\ replies[2].exc = "RuntimeError: other"
    /\ ret = Raise("RuntimeError: other")
    /\ calls[2].max_tokens < calls[1].max_tokens

\* A call of make_model has ended.
Made == pc = "made"

\* The identifier holds a family prefix followed by a number and "b".
RECURSIVE AllDigits(_)
AllDigits(t) == t = <<>> \/ (IsDigit(Head(t)) /\ AllDigits(Tail(t)))

IsNumber(t) ==
    /\ t # <<>>
    /\ \/ AllDigits(t)
       \/ \E i \in 2 .. Len(t) :
             /\ t[i] = "."
             /\ AllDigits(SubSeq(t, 1, i - 1))
             /\ AllDigits(SubSeq(t, i + 1, Len(t)))

HasSizedFamily(name) ==
    \E prefix \in {S_starcoder2_, S_code_llama_, S_code_llama_multi \o S_dash,
                   S_deepseek_coder_, S_codegemma_} :
    \E i \in 1 .. Len(name), j \in 1 .. Len(name) :
       /\ i <= j
       /\ StartsWith(SubSeq(name, i, Len(name)), prefix \o SubSeq(name, i + Len(prefix), j) \o S_b)
       /\ IsNumber(SubSeq(name, i + Len(prefix), j))

\* The identifier is no known name and fits no family pattern.
Unmatched(name) ==
    /\ \A r \in Range(KnownModels) : r.id # name
    /\ ~StartsWith(name, S_gpt35)
    /\ ~StartsWith(name, S_gpt4)
    /\ ~StartsWith(name, S_claude)
    /\ ~HasSizedFamily(name)

\* C11: for every identifier that is no known name and fits no family pattern,
\* those that start with a family prefix or contain codegemma but have no
\* number for a size included, make_model raises the ValueError "Invalid model
\* name" and constructs no decoder.
C11_UnmatchedIdentifierIsInvalidModelName ==
    (Made /\ Unmatched(outcome.name)) =>
        /\ outcome.kind = "raise"
        /\ outcome.exc = "ValueError: Invalid model name"
        /\ outcome.decoder = <<>>

\* Sizes as an identifier may write them, each with the number as Python
\* prints it.
SizeForms ==
    {<<<<"7">>, <<"7">>>>, <<<<"0", "7">>, <<"7">>>>,
     <<<<"6", ".", "7">>, <<"6", ".", "7">>>>, <<<<"7", "0">>, <<"7", "0">>>>}

\* C12: make_model of deepseek-coder-<size>b-instruct gives a DeepSeekInstruct
\* decoder named deepseek-ai/deepseek-coder-<size>b-instruct, the size being the
\* same number, with max_new_tokens 1024; of deepseek-coder-<size>b-base it
\* gives a VLlmDecoder named deepseek-ai/deepseek-coder-<size>b-base with
\* max_new_tokens 512.
C12_DeepseekInstructAndBase ==
    Made =>
        \A form \in SizeForms :
           /\ outcome.name = S_deepseek_coder_ \o form[1] \o N_b_instruct =>
                 /\ outcome.kind = "return"
                 /\ outcome.decoder[1].cls = "DeepSeekInstruct"
                 /\ outcome.decoder[1].name = N_deepseek \o form[2] \o N_b_instruct
                 /\ outcome.decoder[1].conversational
                 /\ outcome.decoder[1].max_new_tokens = 1024
           /\ outcome.name = S_deepseek_coder_ \o form[1] \o N_b_base =>
                 /\ outcome.kind = "return"
                 /\ outcome.decoder[1].cls = "VLlmDecoder"
                 /\ outcome.decoder[1].name = N_deepseek \o form[2] \o N_b_base
                 /\ ~outcome.decoder[1].conversational
                 /\ outcome.decoder[1].max_new_tokens = 512

\* make_model("deepseek-coder-6.7b-instruct") has returned its decoder.
C12_Witness ==
    /\ Made
    /\ outcome.name = S_deepseek_coder_ \o <<"6", ".", "7">> \o N_b_instruct
    /\ outcome.kind = "return"
    /\ outcome.decoder[1].max_new_tokens = 1024

\* The string returned is the content of the response, or in the JSON mode of
\* OpenAIChatDecoder the prompt, a newline and the "code" of that content.
FromResponse(output, content) ==
    \/ output = content
    \/ /\ self.name = "gpt-4-1106-preview"
       /\ Len(content) >= 2
       /\ output = args.prompt \o <<"\n">> \o SubSeq(content, 2, Len(content) - 1)

\* C13 (as stated): every remote decoder serves a codegen call by exactly
\* min(batch_size, num_samples) requests made one after another, each for one
\* completion, and the i-th string returned is the response to the i-th request
\* (stated of the calls that ask for at least one sample).
C13_EveryRemoteLoops ==
    (Returned /\ self.cls \in RemoteClasses /\ args.num_samples >= 1) =>
        /\ Len(calls) = SmallerOf(self0.batch_size, args.num_samples)
        /\ \A i \in DOMAIN calls : calls[i].n = 1
        /\ \A i \in DOMAIN ret.outputs :
              /\ i \in DOMAIN replies
              /\ FromResponse(ret.outputs[i], replies[i].texts[1])

\* C13 (amended): MistralChatDecoder and AnthropicMessageDecoder serve a call by
\* exactly min(batch_size, num_samples) requests made one after another, each
\* answered by one text, and the i-th string returned is the text of the i-th
\* request; OpenAIChatDecoder makes one request for n = min(batch_size,
\* num_samples) choices, and the i-th string returned comes from the i-th
\* choice of its response.
C13_LoopingRemotesAndOpenAI ==
    Returned =>
        /\ self.cls \in {"MistralChatDecoder", "AnthropicMessageDecoder"} =>
              /\ Len(calls) = SmallerOf(self0.batch_size, args.num_samples)
              /\ Len(ret.outputs) = Len(calls)
              /\ \A i \in DOMAIN calls :
                    /\ calls[i].n = 1
                    /\ replies[i].texts = <<ret.outputs[i]>>
        /\ self.cls = "OpenAIChatDecoder" =>
              /\ Len(calls) = 1
              /\ calls[1].n = SmallerOf(self0.batch_size, args.num_samples)
              /\ Len(ret.outputs) = Len(replies[1].texts)
              /\ \A i \in DOMAIN ret.outputs :
                    FromResponse(ret.outputs[i], replies[1].texts[i])

\* MistralChatDecoder returned two different texts, got by two requests.
C13_Witness ==
    /\ Returned
    /\ self.cls = "MistralChatDecoder"
    /\ Len(calls) = 2
    /\ ret.outputs[1] # ret.outputs[2]
    /\ replies[2].texts = <<ret.outputs[2]>>

\* C14 (as stated): on every remote decoder, a request sent with temperature 0
\* belongs to a call whose min(batch_size, num_samples) is 1, and a call on a
\* decoder of temperature 0 whose min(batch_size, num_samples) exceeds 1 is
\* refused before any request is sent (stated of the calls that ask for at
\* least one sample).
C14_ZeroTemperatureRequestsBatchOne ==
    (InCall /\ self.cls \in RemoteClasses /\ args.num_samples >= 1) =>
        /\ \A i \in DOMAIN calls :
              calls[i].temperature = <<0>> =>
                  SmallerOf(self0.batch_size, args.num_samples) = 1
        /\ (self0.temperature = 0
               /\ SmallerOf(self0.batch_size, args.num_samples) > 1) => Rejected

\* C14 (amended): AnthropicMessageDecoder alone asserts the batch size, and
\* it does so for a call with do_sample false, whatever the temperature: such
\* a call is refused unless min(batch_size, num_samples) is 1, and every
\* request it sends with temperature 0 belongs to a call with do_sample false
\* and effective batch 1.  OpenAIChatDecoder and MistralChatDecoder refuse no
\* call with do_sample false.
C14_OnlyAnthropicAssertsBatchOne ==
    InCall =>
        /\ self.cls = "AnthropicMessageDecoder" =>
              /\ (~args.do_sample
                     /\ SmallerOf(self0.batch_size, args.num_samples) # 1) => Rejected
              /\ \A i \in DOMAIN calls :
                    calls[i].temperature = <<0>> =>
                        /\ ~args.do_sample
                        /\ SmallerOf(self0.batch_size, args.num_samples) = 1
        /\ (self.cls \in {"OpenAIChatDecoder", "MistralChatDecoder"}
               /\ ~args.do_sample) => ~Rejected

\* AnthropicMessageDecoder refused a greedy call for two samples on a decoder
\* of batch size 2 and temperature 0.
C14_Witness ==
    /\ Rejected
    /\ self.cls = "AnthropicMessageDecoder"
    /\ self0.temperature = 0
    /\ self0.batch_size = 2
    /\ ~args.do_sample
    /\ args.num_samples = 2

\* The content is no JSON object, or is one without a "code".
NoCodeIn(content) ==
    \/ content = <<>>
    \/ content[1] # "{"
    \/ content[Len(content)] # "}"
    \/ content = <<"{", "}">>

\* C15: in the JSON mode of OpenAIChatDecoder, a choice whose content does not
\* parse or has no "code" does not fail the call: a response with choices makes
\* codegen return, with one string for each choice in their order, and the
\* string for such a choice is its content as it came.
C15_JsonFallsBackToRawContent ==
    (pc = "done" /\ self.cls = "OpenAIChatDecoder"
        /\ self.name = "gpt-4-1106-preview"
        /\ calls # <<>> /\ replies[1].exc = "none") =>
        /\ ret.kind = "return"
        /\ Len(ret.outputs) = Len(replies[1].texts)
        /\ \A i \in DOMAIN ret.outputs :
              /\ NoCodeIn(replies[1].texts[i]) => ret.outputs[i] = replies[1].texts[i]
              /\ FromResponse(ret.outputs[i], replies[1].texts[i])

\* Of two choices the first had no "code" and came back as it was, the second
\* had one.
C15_Witness ==
    /\ Returned
    /\ self.cls = "OpenAIChatDecoder"
    /\ self.name = "gpt-4-1106-preview"
    /\ Len(ret.outputs) = 2
    /\ replies[1].texts[1] = <<"{", "}">>
    /\ ret.outputs[1] = <<"{", "}">>
    /\ replies[1].texts[2] = <<"{", "x", "}">>
    /\ ret.outputs[2] = args.prompt \o <<"\n", "x">>

\* The markers a class adds for itself at construction.
OwnMarkers(cls) ==
    CASE cls \in ForcedConversational \cup {"Solar"} -> {{M_fence}}
      [] cls = "IncoderDecoder" -> {Range(IncoderExtraEos)}
      [] cls = "Codegen2Decoder" -> {{M_eom}}
      [] cls = "SantaCoder" -> {{M_endofmask}}
      [] cls = "Speechless" -> {{M_s}, {M_eos_ds}}
      [] cls = "OpenCodeInterpreterDecoder" -> {{M_EOT, M_fence_nl, M_if}}
      [] OTHER -> {{}}

NoMarkerTwice(eos) == \A i, j \in DOMAIN eos : eos[i] = eos[j] => i = j

\* C16: after any sequence of constructions in one process, the module-level
\* list EOS holds the base markers only, the markers of each decoder constructed
\* are the base markers and those its own class adds and no others, and no
\* list holds a marker twice.
C16_ConstructionKeepsMarkerSetsApart ==
    /\ EOS = EOS0
    /\ \A i \in DOMAIN decoders :
          LET eos == Eos(decoders[i], EOS)
          IN  /\ \E own \in OwnMarkers(decoders[i].cls) :
                    Range(eos) = Range(EOS0) \cup own
              /\ NoMarkerTwice(eos)

\* C17: a codegen call, on any decoder class and with any arguments, leaves the
\* decoder's temperature, batch size, max_new_tokens and marker list as the call
\* found them, so that the next call meets the decoder as it was constructed.
C17_CodegenLeavesDecoderUnchanged ==
    InCall =>
        /\ self.temperature = self0.temperature
        /\ self.batch_size = self0.batch_size
        /\ self.max_new_tokens = self0.max_new_tokens
        /\ Eos(self, EOS) = Eos(self0, EOS)

\* The text decoded from the tokens of a row after the first n of them.
TextAfter(index, n) ==
    Concat(SubSeq(input_ids[index], n + 1, Len(input_ids[index])))

\* The text that the row's generated tokens decode to.
GeneratedText(index) == TextAfter(index, criteria.start_length)

\* The same text before the last step added its token.
GeneratedTextBefore(index) ==
    Concat(SubSeq(input_ids[index], criteria.start_length + 1,
                  Len(input_ids[index]) - 1))

\* C18: a row has a completion record exactly from the first step at which its
\* generated text holds a marker, and no later step changes or removes a
\* record once made.
C18_RecordedAtFirstDetectionAndKept ==
    /\ [](\A index \in DOMAIN input_ids :
            index \in DOMAIN criteria.end_length
                <=> AnyMarkerIn(GeneratedText(index), criteria.eos))
    /\ [][\A index \in DOMAIN criteria.end_length :
            /\ index \in DOMAIN criteria'.end_length
            /\ criteria'.end_length[index] = criteria.end_length[index]]_vars

\* A row whose record (0: the one-token marker was the first token generated)
\* was made at an earlier step than the last one.
C18_Witness ==
    /\ pc = "generate"
    /\ \E index \in DOMAIN criteria.end_length :
          /\ Generated >= 2
          /\ AnyMarkerIn(GeneratedTextBefore(index), criteria.eos)
          /\ criteria.end_length[index] = 0
          /\ tokenizer[M_s] = 1

\* C19: a step of the criterion returns True exactly when the generated text
\* of every row of the batch holds at least one marker; while some row holds
\* none it returns False.
C19_HaltsIffEveryRowHoldsAMarker ==
    halt # "none" =>
        (halt = "True"
            <=> \A index \in DOMAIN input_ids :
                    AnyMarkerIn(GeneratedText(index), criteria.eos))

\* A batch of two rows on which the criterion returned True, one of the rows
\* having held its marker a step before the other.
C19_Witness ==
    /\ halt = "True"
    /\ Len(input_ids) = 2
    /\ AnyMarkerIn(GeneratedTextBefore(1), criteria.eos)
    /\ ~AnyMarkerIn(GeneratedTextBefore(2), criteria.eos)

\* The last step is the one at which the row's text first held a marker.
JustDetected(index) ==
    /\ AnyMarkerIn(GeneratedText(index), criteria.eos)
    /\ ~AnyMarkerIn(GeneratedTextBefore(index), criteria.eos)

\* The markers that occur at the smallest position of the text.
EarliestMarkers(text, eos) ==
    {m \in Range(eos) : EarliestMarker(text, eos) \in Occurrences(m, text)}

\* C20: the length recorded when a row's text first holds a marker is the
\* number of tokens generated for the row less the number of tokens that the
\* earliest-occurring marker encodes to, kept between 0 and the number of
\* tokens generated, whatever the number of tokens the marker encodes to.
C20_LengthIsGeneratedLessEarliestMarker ==
    \A index \in DOMAIN input_ids :
        JustDetected(index) =>
            /\ \E m \in EarliestMarkers(GeneratedText(index), criteria.eos) :
                  criteria.end_length[index]
                      = Max(Generated - tokenizer[m], 0)
            /\ criteria.end_length[index] \in 0 .. Generated

\* Whole sizes as an identifier may write them, each as Python prints the int.
WholeSizeForms ==
    {<<<<"7">>, <<"7">>>>, <<<<"0", "7">>, <<"7">>>>, <<<<"7", "0">>, <<"7", "0">>>>}

\* The identifier holds codegemma-<n>b, after the given lead, for the size form.
IsCodegemma(name, lead, form) == name = lead \o S_codegemma_ \o form[1] \o S_b

\* C24: make_model of every identifier that holds codegemma-<n>b returns a
\* CodeGemma decoder, conversational, named TechxGenus/CodeGemma-<n>b, in every
\* call, whatever identifiers the process resolved before.
C24_CodegemmaResolves ==
    Made =>
        \A form \in WholeSizeForms, lead \in {<<>>, <<"m", "y", "-">>} :
            IsCodegemma(outcome.name, lead, form) =>
                /\ outcome.kind = "return"
                /\ outcome.decoder[1].cls = "CodeGemma"
                /\ outcome.decoder[1].name = N_CodeGemma \o form[2] \o S_b
                /\ outcome.decoder[1].conversational

\* The identifier is starcoder2-<n>b followed by anything.
IsStarcoder2Sized(name) ==
    \E j \in Len(S_starcoder2_) + 1 .. Len(name) - 1 :
        /\ StartsWith(name, S_starcoder2_)
        /\ AllDigits(SubSeq(name, Len(S_starcoder2_) + 1, j))
        /\ name[j + 1] = "b"

\* C25: make_model of an identifier that starts with starcoder and is not of
\* the form starcoder2-<n>b returns the StarCoderInfill decoder named
\* bigcode/<identifier>: the branch that returns it is reachable.
C25_StarcoderResolvesToInfill ==
    (/\ Made
     /\ StartsWith(outcome.name, S_starcoder)
     /\ ~IsStarcoder2Sized(outcome.name)) =>
        /\ outcome.kind = "return"
        /\ outcome.decoder[1].cls = "StarCoderInfill"
        /\ outcome.decoder[1].name = N_bigcode \o outcome.name

\* C26: when the branch of make_model passes max_new_tokens (768, for
\* dolphin-2.6 and mistral-hermes-codepro-7b), the decoder it returns has that
\* max_new_tokens.
C26_OverrideIsTheDecodersBudget ==
    Made =>
        \A r \in Range(KnownModels) :
            (outcome.name = r.id /\ r.max_new_tokens # <<>>) =>
                /\ outcome.kind = "return"
                /\ outcome.decoder[1].max_new_tokens = r.max_new_tokens[1]

\* C23: of every decoder class, each backend invocation made by a codegen call
\* with do_sample=True is handed the decoder's temperature as its sampling
\* temperature.
C23_SamplingTemperatureIsTheDecoders ==
    args.do_sample =>
        \A i \in DOMAIN calls : calls[i].temperature = <<self.temperature>>

\* The call was given a prompt with four spaces, reached the backend, got a
\* text that begins with a tab, and returned.
ReturnedOverTabs ==
    /\ Returned
    /\ In(FourSpaces, args.prompt)
    /\ calls # <<>>
    /\ \E k \in DOMAIN replies : \E j \in DOMAIN replies[k].texts :
          StartsWith(replies[k].texts[j], Tab)

\* The input handed to the backend holds a tab (the prompt held none).
PromptSubstituted ==
    /\ ~In(Tab, args.prompt)
    /\ \A k \in DOMAIN calls : In(Tab, calls[k].input)

\* No string returned holds a tab.
OutputSubstituted == \A i \in DOMAIN ret.outputs : ~In(Tab, ret.outputs[i])

\* C22: of every decoder class, codegen puts four spaces for the tabs of the
\* decoded output exactly when it put tabs for the four spaces of the prompt
\* before handing it to the backend.
C22_TabSubstitutionIsSymmetric ==
    ReturnedOverTabs => (OutputSubstituted <=> PromptSubstituted)

\* C21: when a CodeT5P generation returns, after out-of-memory retries or
\* without, a row has a completion record only if the text generated for it by
\* the generate call that returned holds a marker; a row whose text holds no
\* marker has no record and is returned as its whole decoded text.
C21_RecordOnlyOfMarkerInReturnedText ==
    Returned =>
        \A index \in DOMAIN input_ids :
            /\ index \in DOMAIN criteria.end_length
                  => AnyMarkerIn(GeneratedText(index), criteria.eos)
            /\ ~AnyMarkerIn(GeneratedText(index), criteria.eos)
                  => /\ index \notin DOMAIN criteria.end_length
                     /\ ret.outputs[index] = GeneratedText(index)

====
